---------------------------- MODULE Spec2Model ----------------------------
(***************************************************************************)
(* Model of the XP progression engine and the guild-scoped XP cache of     *)
(* src/main.py: the level curve (get_level, xp_for_level), the in-memory   *)
(* table xp_data, the xp table of the SQLite store, and the background     *)
(* load_xp / save_xp coroutines that asyncio interleaves with the          *)
(* handlers.                                                               *)
(***************************************************************************)
EXTENDS Integers, Sequences, FiniteSets, Bags, TLC

VARIABLES
    xp_data,       \* main.py:70  dict guild -> dict user -> xp (insertion ordered)
    db_xp,         \* rows (guild, user, xp) of table xp in bot_data.db
    tasks,         \* bag of load_xp / save_xp coroutines not yet finished
    last_write,    \* history: value stored by the latest set_user_xp per (guild, user)
    first_access,  \* history: first access to a guild nobody had loaded
    last_add,      \* history: the latest add_user_xp call and what it signalled
    save_failed,   \* history: a save_xp coroutine has ended with an exception
    ops,           \* number of handler invocations so far
    calc,          \* evaluation of the pure level functions on one argument
    mod_stats,     \* main.py:67  dict guild -> dict user -> dict action -> timestamps
    db_mod,        \* rows (guild, user, action, timestamp) of table mod_stats, by rowid
    mod_tasks,     \* bag of moderation handlers and save_mod_stats coroutines in flight
    mod_log,       \* history: every timestamp update_mod_stats appended, in order
    last_deleted_photo, \* main.py:70  dict guild -> list of deleted image messages
    db_photo,      \* rows (guild, author, timestamp) of table last_deleted_photo, by rowid
    media_tasks,   \* bag of on_message_delete handlers suspended in their save
    media_log,     \* history: every entry on_message_delete inserted, in order
    afk_cache,     \* main.py:71  dict user -> AFK reason, as the slots of the dict
    db_afk,        \* rows (user, reason) of table afk
    afk_tasks,     \* bag of on_message / afk handlers suspended at an await
    afk_last,      \* history: what the latest handler step did with afk_cache
    members,       \* guild.members: the ids guild.get_member finds
    board,         \* the list the latest leaderboard_handler showed
    level_channels, \* main.py:66 dict guild -> id of the level-up channel
    guild_roles,   \* guild.roles: the names of the guild's roles, by role
    member_roles,  \* member.roles of every user: a set of roles of guild_roles
    notify_tasks,  \* bag of notify_level_up coroutines suspended at an await
    notes,         \* every level-up message channel.send delivered, in order
    levelups,      \* history: every notify_level_up call add_user_xp made
    notify_errors, \* history: every notify_level_up call a gateway error ended
    boot,          \* GITHUB_TOKEN is set; init_db has run; on_ready has loaded the state
    readies,       \* the on_ready coroutines, by delivery of the ready event
    backups,       \* the periodic_db_upload tasks, by creation
    prefixes,      \* main.py:65  dict guild -> command prefix
    db_settings,   \* rows (guild, prefix, level_channel) of table settings
    setting_tasks, \* bag of handlers suspended in their save_settings
    invocation,    \* the latest command invocation: name, arguments, caller's permissions
    msg_cooldown,  \* main.py:72  (guild, user) -> time of the latest passive XP
    clock,         \* datetime.now().timestamp(), in seconds
    inbox,         \* the on_message coroutines of ordinary messages, by arrival
    cooldowns,     \* main.py:1384  guild -> start of the cooldown window of xpadd
    posts          \* the messages that carry an xpadd command, by arrival

xpVars == <<xp_data, db_xp, tasks, last_write, first_access, last_add, save_failed>>

progVars == <<xpVars, ops>>

modVars == <<mod_stats, db_mod, mod_tasks, mod_log>>

mediaVars == <<last_deleted_photo, db_photo, media_tasks, media_log>>

afkVars == <<afk_cache, db_afk, afk_tasks, afk_last>>

boardVars == <<members, board>>

rewardVars == <<level_channels, guild_roles, member_roles, notify_tasks, notes, levelups,
               notify_errors>>

startVars == <<boot, readies, backups>>

setVars == <<prefixes, db_settings, setting_tasks>>

cmdVars == <<cooldowns, posts>>

msgVars == <<msg_cooldown, clock, inbox, cmdVars>>

\* the variables the XP cache and the level functions leave alone
otherVars == <<modVars, mediaVars, afkVars, boardVars, rewardVars, startVars, setVars, invocation, msgVars>>

\* the variables the moderation log leaves alone, ops apart
notMod == <<xpVars, calc, mediaVars, afkVars, boardVars, rewardVars, startVars, setVars, invocation, msgVars>>

\* the variables the deleted-media list leaves alone
notMedia == <<progVars, calc, modVars, afkVars, boardVars, rewardVars, startVars, setVars, invocation, msgVars>>

\* the variables the AFK map leaves alone, ops apart
notAfk == <<xpVars, calc, modVars, mediaVars, boardVars, rewardVars, startVars, setVars, invocation, msgVars>>

\* the variables the leaderboard leaves alone
notBoard == <<progVars, calc, modVars, mediaVars, afkVars, rewardVars, startVars, setVars, invocation, msgVars>>

\* the variables notify_level_up leaves alone
\* the variables startup and backup leave alone, the loaded caches apart
notStart == <<calc, boardVars, setVars, invocation, msgVars>>

\* the variables the settings leave alone, ops and level_channels apart
notSet == <<xpVars, calc, modVars, mediaVars, afkVars, boardVars, startVars, msgVars>>

notReward == <<progVars, calc, modVars, mediaVars, afkVars, boardVars, startVars, setVars, invocation, msgVars>>

vars == <<progVars, calc, otherVars>>

-----------------------------------------------------------------------------
(* Bounds of the model.                                                    *)

\* greatest XP total a handler may produce in the cache model
MaxXp == 300
\* greatest number of unfinished background coroutines
MaxTasks == 3
\* greatest number of handler invocations in one run
MaxOps == 2
\* range of the XP arguments the level functions are evaluated on
MinXpArg == 0 - 15
MaxXpArg == 320
\* greatest level argument of level_set
MaxLevelArg == 40
\* greatest number of image messages deleted in one run
MaxDeletes == 12
\* greatest number of users with recorded XP in the leaderboard's guild
MaxBoardUsers == 12
\* greatest XP total a grant may produce in the level-reward model
MaxRewardXp == 21000
\* greatest number of handler invocations in one run of the level-reward model
MaxRewardOps == 3
\* greatest number of deliveries of the ready event
MaxReady == 2
\* greatest number of upload attempts of the backup loops together
MaxUploads == 2

Guilds == {1}
Users == {1, 2}

\* amounts given to add_user_xp / xp_add / xp_remove, and values given to
\* set_user_xp (any sign: the functions accept every integer)
Amounts == {0 - 100, 100, 300}
SetValues == {0 - 100}
\* amounts and levels given to the commands (0 and -1 are the rejected inputs)
HandlerAmounts == {0, 100, 300}
HandlerLevels == {0 - 1, 0, 2}

\* rows the store may hold when the process starts (left by an earlier run)
InitRows == {<<1, 1, 100>>, <<1, 2, 300>>}

\* greatest number of image messages deleted while the list is reloaded
MaxReloadDeletes == 1

\* the on_message coroutines followed
MaxMessages == 3

\* the steps the clock makes
MaxTicks == 2

\* the command messages followed
MaxPosts == 2

\* datetime.now().timestamp() when the model starts: any time later than
\* the cooldown after the epoch                          main.py:1020
StartClock == 1000

\* no command has been invoked
NoCommand == [name |-> "none", guild |-> 0, user |-> 0, arg |-> 0, perms |-> {}, seq |-> 0]

\* "no value yet" in the history and calc records (no XP or level is negative)
NoValue == 0 - 1

-----------------------------------------------------------------------------
(* The level curve.                                                        *)

\* Greatest L >= from with 100*(2L+1)^2 <= 100 + 8*xp, that is
\* floor((-1 + sqrt(1 + 8*xp/100)) / 2): the value of the float expression of
\* get_level. Double arithmetic yields exactly this floor for every xp below
\* 3.5*10^15, far above the 32-bit integers of this model.
RECURSIVE LevelFrom(_, _)
LevelFrom(xp, from) ==
    IF 100 * (2 * (from + 1) + 1) * (2 * (from + 1) + 1) <= 100 + 8 * xp
    THEN LevelFrom(xp, from + 1)
    ELSE from

\* faulty variant: the square root rounded down at a perfect square
RECURSIVE LevelFromStrict(_, _)
LevelFromStrict(xp, from) ==
    IF 100 * (2 * (from + 1) + 1) * (2 * (from + 1) + 1) < 100 + 8 * xp
    THEN LevelFromStrict(xp, from + 1)
    ELSE from

\* faulty variant: non-positive XP gives level 1 (levels counted from 1)
get_level_from_one(xp) ==
    IF xp <= 0 THEN 1 ELSE LevelFrom(xp, 0)

\* faulty variant: the perfect-square rounding error
get_level_strict(xp) ==
    IF xp <= 0 THEN 0 ELSE LevelFromStrict(xp, 0)

\* faulty variant: the level is rounded up instead of down
get_level_ceil(xp) ==
    IF xp <= 0 THEN 0 ELSE LevelFrom(xp + 99, 0)

\* main.py:235-238
get_level(xp) ==
    IF xp <= 0 THEN 0 ELSE LevelFrom(xp, 0)

\* faulty variant: the threshold of the level below
xp_for_level_below(level) ==
    50 * level * (level - 1)

\* main.py:240-241
xp_for_level(level) ==
    50 * level * (level + 1)

\* faulty variant: the window is taken to be the threshold of the next level
get_level_info_whole(xp) ==
    LET level       == get_level(xp)
        xp_start    == xp_for_level(level)
        xp_for_next == xp_for_level(level + 1)
        xp_in_level == xp - xp_start
        next_needed == xp_for_next - xp_in_level
    IN  [level |-> level, xp_in_level |-> xp_in_level, next_needed |-> next_needed,
         progress |-> IF xp_for_next > 0
                      THEN [num |-> xp_in_level * 100, den |-> xp_for_next]
                      ELSE [num |-> 0, den |-> 1]]

\* main.py:243-250; progress is the quotient (xp_in_level / xp_for_next) * 100
\* as the fraction num / den, of which the float of the code is the rounding
get_level_info(xp) ==
    LET level       == get_level(xp)
        xp_start    == xp_for_level(level)
        xp_for_next == 100 * (level + 1)
        xp_in_level == xp - xp_start
        next_needed == xp_for_next - xp_in_level
    IN  [level |-> level, xp_in_level |-> xp_in_level, next_needed |-> next_needed,
         progress |-> IF xp_for_next > 0
                      THEN [num |-> xp_in_level * 100, den |-> xp_for_next]
                      ELSE [num |-> 0, den |-> 1]]

-----------------------------------------------------------------------------
(* The XP cache. A Python dict keeps its keys in insertion order, so a     *)
(* guild's table is a sequence of [user, xp] entries with distinct users.  *)

Max(a, b) == IF a >= b THEN a ELSE b

HasKey(d, u) == \E i \in 1..Len(d) : d[i].user = u

\* d.get(u, default)
DictGet(d, u, default) ==
    IF HasKey(d, u) THEN d[CHOOSE i \in 1..Len(d) : d[i].user = u].xp ELSE default

\* faulty variant: an entry that exists keeps its value (setdefault)
DictPutKeep(d, u, x) ==
    IF HasKey(d, u) THEN d ELSE Append(d, [user |-> u, xp |-> x])

\* d[u] = x: an existing key keeps its position, a new key goes last
DictPut(d, u, x) ==
    IF HasKey(d, u)
    THEN [i \in 1..Len(d) |-> IF d[i].user = u THEN [user |-> u, xp |-> x] ELSE d[i]]
    ELSE Append(d, [user |-> u, xp |-> x])

\* xp_data[g] = d
GuildPut(xd, g, d) ==
    [h \in DOMAIN xd \cup {g} |-> IF h = g THEN d ELSE xd[h]]

\* a coroutine object; pc is the await it is suspended at
\*   load_xp: start -> select -> rows;  save_xp: start -> connect -> insert* -> commit
Task(fn, g) ==
    [fn |-> fn, guild |-> g, pc |-> "start", rows |-> << >>, idx |-> 0, size |-> 0,
     first |-> FALSE]

\* asyncio.create_task(coro)
create_task(ts, t) == ts (+) SetToBag({t})

TaskDone(ts, t) == ts (-) SetToBag({t})

TaskStep(ts, t, t2) == (ts (-) SetToBag({t})) (+) SetToBag({t2})

\* if guild_id not in xp_data: asyncio.create_task(load_xp(guild_id))
\*                                                  main.py:216-217, 221-222
EnsureLoad(st, g) ==
    IF g \notin DOMAIN st.xd
    THEN [st EXCEPT !.ts = create_task(@, Task("load_xp", g))]
    ELSE st

\* the value get_user_xp returns: xp_data.get(guild_id, {}).get(user_id, 0)
\*                                                  main.py:218
CachedXp(xd, g, u) ==
    IF g \in DOMAIN xd THEN DictGet(xd[g], u, 0) ELSE 0

\* faulty variant: the value is stored as given
StoredXpUnclamped(xp) == xp

\* max(0, xp)                                       main.py:223
StoredXp(xp) == Max(0, xp)

\* main.py:220-224
set_user_xp(st, g, u, xp) ==
    LET s1 == EnsureLoad(st, g)
        d  == IF g \in DOMAIN s1.xd THEN s1.xd[g] ELSE << >>
    IN  [xd |-> GuildPut(s1.xd, g, DictPut(d, u, StoredXp(xp))),
         ts |-> create_task(s1.ts, Task("save_xp", g))]

\* faulty variant: the amount replaces the total
NewXpReplace(current, amount) == amount

\* new_xp = current + amount                        main.py:229
NewXp(current, amount) == current + amount

\* faulty variant: only a rise by exactly one level counts
LevelUpByOne(old_level, new_level) == new_level = old_level + 1

\* if new_level > old_level                         main.py:232
LevelUp(old_level, new_level) == new_level > old_level

\* main.py:226-233; signal is the sequence of notify_level_up calls it makes,
\* each given by the level passed
add_user_xp(st, g, u, amount) ==
    LET current   == CachedXp(st.xd, g, u)
        s1        == EnsureLoad(st, g)
        old_level == get_level(current)
        new_xp    == NewXp(current, amount)
        s2        == set_user_xp(s1, g, u, new_xp)
        new_level == get_level(new_xp)
    IN  [xd |-> s2.xd, ts |-> s2.ts,
         signal |-> IF LevelUp(old_level, new_level) THEN <<new_level>> ELSE << >>]

-----------------------------------------------------------------------------
(* Evaluation of the level functions on one argument (specification        *)
(* SpecLevel). calc.kind says what the argument is: an XP total, as        *)
(* rank_handler passes to get_level_info, or a level, as level_set_handler *)
(* passes to xp_for_level.                                                 *)

CalcIdle ==
    [stage |-> "idle", kind |-> "xp", arg |-> 0, level |-> NoValue,
     thr |-> NoValue, back |-> NoValue, prev_arg |-> NoValue - MaxXpArg,
     prev_level |-> NoValue, info |-> NoValue]

CalcStart(k, a) ==
    [CalcIdle EXCEPT !.stage = "arg", !.kind = k, !.arg = a]

\* level = get_level(xp)                                  main.py:244
CalcGetLevel ==
    /\ calc.stage = "arg"
    /\ calc.kind = "xp"
    /\ calc' = [calc EXCEPT !.stage = "levelled", !.level = get_level(calc.arg)]
    /\ UNCHANGED <<progVars, otherVars>>

\* level, xp_in_level, next_needed, progress = get_level_info(xp)
\*                                                      main.py:545, 926
CalcInfo ==
    /\ calc.stage = "arg"
    /\ calc.kind = "xp"
    /\ calc' = [calc EXCEPT !.stage = "info", !.level = get_level_info(calc.arg).level,
                            !.info = get_level_info(calc.arg)]
    /\ UNCHANGED <<progVars, otherVars>>

\* a later call of get_level with a greater XP total       main.py:235-238
CalcNextXp ==
    /\ calc.stage = "levelled"
    /\ calc.prev_level = NoValue
    /\ \E x \in (calc.arg + 1)..MaxXpArg :
          calc' = [calc EXCEPT !.prev_arg = calc.arg, !.prev_level = calc.level,
                               !.arg = x, !.level = get_level(x),
                               !.thr = NoValue, !.back = NoValue]
    /\ UNCHANGED <<progVars, otherVars>>

\* xp_start = xp_for_level(level)                         main.py:245
CalcXpStart ==
    /\ calc.stage = "levelled"
    /\ calc' = [calc EXCEPT !.stage = "threshold", !.thr = xp_for_level(calc.level)]
    /\ UNCHANGED <<progVars, otherVars>>

\* target_xp = xp_for_level(level)                        main.py:604
CalcTargetXp ==
    /\ calc.stage = "arg"
    /\ calc.kind = "level"
    /\ calc' = [calc EXCEPT !.stage = "threshold", !.thr = xp_for_level(calc.arg)]
    /\ UNCHANGED <<progVars, otherVars>>

\* the level derived from the threshold                   main.py:235-238
CalcBack ==
    /\ calc.stage = "threshold"
    /\ calc' = [calc EXCEPT !.stage = "back", !.back = get_level(calc.thr)]
    /\ UNCHANGED <<progVars, otherVars>>

-----------------------------------------------------------------------------
(* Handlers. Each runs on the event loop without suspension up to the      *)
(* point modelled, so it is one step.                                      *)

State == [xd |-> xp_data, ts |-> tasks]

\* an invocation of a handler is counted; the count only bounds a run
Count == ops < MaxOps /\ ops' = ops + 1

GuildTasks(ts, g) == {t \in BagToSet(ts) : t.guild = g}

\* rows of table xp with guild_id = g, as (user_id, xp) pairs
RowsOf(db, g) == {<<r[2], r[3]>> : r \in {q \in db : q[1] = g}}

AddIdle ==
    [op |-> "none", guild |-> 0, user |-> 0, current |-> 0, amount |-> 0,
     signal |-> << >>, stored |-> 0, chained |-> FALSE, current0 |-> 0,
     amount0 |-> 0]

NoAccess == [op |-> "none", user |-> 0, rows |-> {}]

\* history only: is this the first access to a guild that nobody has loaded
\* or asked to load
IsFirstAccess(g) ==
    /\ g \notin DOMAIN xp_data
    /\ first_access[g].op = "none"
    /\ GuildTasks(tasks, g) = {}

\* history only: the load tasks this first access created are marked
TagFirst(ts, g) ==
    BagOfAll(LAMBDA t : IF t.fn = "load_xp" /\ t.guild = g
                        THEN [t EXCEPT !.first = TRUE] ELSE t, ts)

Accessed(op, g, u, ts) ==
    IF IsFirstAccess(g)
    THEN /\ first_access' = [first_access EXCEPT
                                ![g] = [op |-> op, user |-> u, rows |-> RowsOf(db_xp, g)]]
         /\ tasks' = TagFirst(ts, g)
    ELSE /\ first_access' = first_access
         /\ tasks' = ts

\* rank_handler: xp = get_user_xp(guild, target)       main.py:215-218, 544
GetUserXp(g, u) ==
    LET st == EnsureLoad(State, g)
    IN  /\ Count
        /\ BagCardinality(st.ts) <= MaxTasks
        /\ Accessed("get", g, u, st.ts)
        /\ UNCHANGED <<xp_data, db_xp, last_write, last_add, calc, save_failed, otherVars>>

\* set_user_xp(guild, user, x)                         main.py:220-224
SetUserXp(g, u, x) ==
    LET st == set_user_xp(State, g, u, x)
    IN  /\ Count
        /\ BagCardinality(st.ts) <= MaxTasks
        /\ xp_data' = st.xd
        /\ Accessed("set", g, u, st.ts)
        /\ last_write' = [last_write EXCEPT ![<<g, u>>] = Max(0, x)]
        /\ last_add' = AddIdle
        /\ UNCHANGED <<db_xp, calc, save_failed, otherVars>>

\* await add_user_xp(guild, user, amount), up to the call of notify_level_up
\*                                                     main.py:226-233
AddUserXp(g, u, amount) ==
    LET current == CachedXp(xp_data, g, u)
        r       == add_user_xp(State, g, u, amount)
        chain   == /\ last_add.op = "add" /\ last_add.guild = g /\ last_add.user = u
                   /\ last_add.stored = current
    IN  /\ Count
        /\ current + amount <= MaxXp
        /\ BagCardinality(r.ts) <= MaxTasks
        /\ xp_data' = r.xd
        /\ Accessed("add", g, u, r.ts)
        /\ last_write' = [last_write EXCEPT ![<<g, u>>] = Max(0, current + amount)]
        /\ last_add' = [op |-> "add", guild |-> g, user |-> u, current |-> current,
                        amount |-> amount, signal |-> r.signal,
                        stored |-> CachedXp(r.xd, g, u), chained |-> chain,
                        current0 |-> IF chain THEN last_add.current ELSE 0,
                        amount0 |-> IF chain THEN last_add.amount ELSE 0]
        /\ UNCHANGED <<db_xp, calc, save_failed, otherVars>>

\* main.py:567-579; perm is the result of has_permission (main.py:393-399)
XpAddHandler(g, u, amount, perm) ==
    IF perm /\ amount >= 1
    THEN AddUserXp(g, u, amount)
    ELSE /\ Count
         /\ UNCHANGED <<xp_data, db_xp, tasks, last_write, first_access, last_add, calc, save_failed, otherVars>>

\* main.py:581-594
XpRemoveHandler(g, u, amount, perm) ==
    IF perm /\ amount >= 1
    THEN LET current == CachedXp(xp_data, g, u)
             s1      == EnsureLoad(State, g)
             new_xp  == Max(0, current - amount)
             st      == set_user_xp(s1, g, u, new_xp)
         IN  /\ Count
             /\ BagCardinality(st.ts) <= MaxTasks
             /\ xp_data' = st.xd
             /\ Accessed("remove", g, u, st.ts)
             /\ last_write' = [last_write EXCEPT ![<<g, u>>] = Max(0, new_xp)]
             /\ last_add' = AddIdle
             /\ UNCHANGED <<db_xp, calc, save_failed, otherVars>>
    ELSE /\ Count
         /\ UNCHANGED <<xp_data, db_xp, tasks, last_write, first_access, last_add, calc, save_failed, otherVars>>

\* main.py:596-607, the count of the invocation apart
level_set_handler(g, u, level, perm) ==
    IF perm /\ level >= 0
    THEN LET target_xp == xp_for_level(level)
             st        == set_user_xp(State, g, u, target_xp)
         IN  /\ BagCardinality(st.ts) <= MaxTasks
             /\ xp_data' = st.xd
             /\ Accessed("level_set", g, u, st.ts)
             /\ last_write' = [last_write EXCEPT ![<<g, u>>] = Max(0, target_xp)]
             /\ last_add' = AddIdle
             /\ UNCHANGED <<db_xp, calc, save_failed, otherVars>>
    ELSE UNCHANGED <<xp_data, db_xp, tasks, last_write, first_access, last_add, calc,
                     save_failed, otherVars>>

\* level_set_handler with targets up to MaxXp           main.py:596-607
LevelSetHandler(g, u, level, perm) ==
    /\ Count
    /\ (perm /\ level >= 0) => xp_for_level(level) <= MaxXp
    /\ level_set_handler(g, u, level, perm)

\* on_guild_join (and on_ready, per guild): await load_xp(guild.id) after the
\* awaited load_mod_stats, so load_xp starts at a later loop iteration
\*                                                     main.py:960-963, 983-987
OnGuildJoin(g) ==
    /\ Count
    /\ BagCardinality(tasks) < MaxTasks
    /\ tasks' = create_task(tasks, Task("load_xp", g))
    /\ UNCHANGED <<xp_data, db_xp, last_write, first_access, last_add, calc, save_failed, otherVars>>

-----------------------------------------------------------------------------
(* The background coroutines, one step per resumption.                     *)

\* the rows of a SELECT ... WHERE guild_id = g, in primary-key order
RECURSIVE SelectRows(_)
SelectRows(rows) ==
    IF rows = {} THEN << >>
    ELSE LET r == CHOOSE x \in rows : \A y \in rows : x[1] <= y[1]
         IN  <<[user |-> r[1], xp |-> r[2]]>> \o SelectRows(rows \ {r})

\* for row in rows: xp_data[guild_id][row[0]] = row[1]
RECURSIVE AssignRows(_, _)
AssignRows(d, rows) ==
    IF rows = << >> THEN d
    ELSE AssignRows(DictPut(d, Head(rows).user, Head(rows).xp), Tail(rows))

\* load_xp up to its first await                       main.py:194-198
LoadStart(t) ==
    /\ t.fn = "load_xp" /\ t.pc = "start"
    /\ IF t.guild \in DOMAIN xp_data
       THEN /\ tasks' = TaskDone(tasks, t)
            /\ xp_data' = xp_data
       ELSE /\ tasks' = TaskStep(tasks, t, [t EXCEPT !.pc = "select"])
            /\ xp_data' = GuildPut(xp_data, t.guild, << >>)
    /\ UNCHANGED <<db_xp, last_write, first_access, last_add, ops, calc, save_failed, otherVars>>

\* the SELECT runs on the connection's thread           main.py:198-199
LoadFetch(t) ==
    /\ t.fn = "load_xp" /\ t.pc = "select"
    /\ tasks' = TaskStep(tasks, t, [t EXCEPT !.pc = "rows",
                                             !.rows = SelectRows(RowsOf(db_xp, t.guild))])
    /\ UNCHANGED <<xp_data, db_xp, last_write, first_access, last_add, ops, calc, save_failed, otherVars>>

\* the fetched rows are assigned on the event loop      main.py:200-201
LoadApply(t) ==
    /\ t.fn = "load_xp" /\ t.pc = "rows"
    /\ t.guild \in DOMAIN xp_data
    /\ xp_data' = GuildPut(xp_data, t.guild, AssignRows(xp_data[t.guild], t.rows))
    /\ tasks' = TaskDone(tasks, t)
    /\ last_add' = IF t.rows = << >> THEN last_add ELSE AddIdle
    /\ UNCHANGED <<db_xp, last_write, first_access, ops, calc, save_failed, otherVars>>

\* faulty variant: a failed write-through drops the guild's table from the
\* cache, so that the next access reloads it from the store
SaveRaisedRollback(st, t) ==
    [xd |-> [h \in DOMAIN st.xd \ {t.guild} |-> st.xd[h]], ts |-> TaskDone(st.ts, t)]

\* an exception leaves save_xp: asyncio keeps it in the Task object that
\* create_task returned, which nobody awaits; nothing else is touched
\*                                                      main.py:203-213, 224
SaveRaised(st, t) == [st EXCEPT !.ts = TaskDone(@, t)]

\* save_xp up to its first await                        main.py:203-206
SaveStart(t) ==
    /\ t.fn = "save_xp" /\ t.pc = "start"
    /\ tasks' = IF t.guild \notin DOMAIN xp_data
                THEN TaskDone(tasks, t)
                ELSE TaskStep(tasks, t, [t EXCEPT !.pc = "connect"])
    /\ UNCHANGED <<xp_data, db_xp, last_write, first_access, last_add, ops, calc, save_failed, otherVars>>

\* a connection that has written holds SQLite's write lock until it commits
\* or closes
WriteLocked == \E t \in BagToSet(tasks) : t.fn = "save_xp" /\ t.pc \in {"insert", "commit"}

\* DELETE FROM xp WHERE guild_id = ?, then the dict iterator is created and
\* yields its first item                                main.py:207-209
SaveDelete(t) ==
    /\ t.fn = "save_xp" /\ t.pc = "connect"
    /\ ~WriteLocked
    /\ t.guild \in DOMAIN xp_data
    /\ LET d == xp_data[t.guild]
       IN  tasks' = TaskStep(tasks, t,
                IF Len(d) = 0
                THEN [t EXCEPT !.pc = "commit", !.size = 0]
                ELSE [t EXCEPT !.pc = "insert", !.size = Len(d), !.idx = 1,
                               !.rows = <<d[1]>>])
    /\ UNCHANGED <<xp_data, db_xp, last_write, first_access, last_add, ops, calc, save_failed, otherVars>>

\* an INSERT has completed and the iterator is advanced: it raises
\* RuntimeError when the dict changed size, which ends the coroutine and rolls
\* the transaction back                                 main.py:208-212
SaveInsert(t) ==
    /\ t.fn = "save_xp" /\ t.pc = "insert"
    /\ t.guild \in DOMAIN xp_data
    /\ LET d == xp_data[t.guild]
       IN  IF Len(d) # t.size
           THEN LET st == SaveRaised(State, t)
                IN  xp_data' = st.xd /\ tasks' = st.ts /\ save_failed' = TRUE
           ELSE /\ tasks' = IF t.idx < t.size
                            THEN TaskStep(tasks, t, [t EXCEPT !.idx = t.idx + 1,
                                                              !.rows = Append(t.rows, d[t.idx + 1])])
                            ELSE TaskStep(tasks, t, [t EXCEPT !.pc = "commit"])
                /\ UNCHANGED <<xp_data, save_failed>>
    /\ UNCHANGED <<db_xp, last_write, first_access, last_add, ops, calc, otherVars>>

\* an await of save_xp raises (sqlite3.OperationalError: the file cannot be
\* opened, the database is locked, the disk is full): the connection closes
\* without a commit                                      main.py:206-213
SaveFail(t) ==
    /\ t.fn = "save_xp" /\ t.pc \in {"connect", "insert", "commit"}
    /\ LET st == SaveRaised(State, t)
       IN  xp_data' = st.xd /\ tasks' = st.ts
    /\ save_failed' = TRUE
    /\ UNCHANGED <<db_xp, last_write, first_access, last_add, ops, calc, otherVars>>

\* faulty variant: DELETE FROM xp, without the WHERE clause
NoRowsLeft(db, g) == {}

\* the rows DELETE FROM xp WHERE guild_id = ? leaves in the table
\*                                                      main.py:207
RowsLeft(db, g) == {r \in db : r[1] # g}

\* await db.commit()                                    main.py:213
SaveCommit(t) ==
    /\ t.fn = "save_xp" /\ t.pc = "commit"
    /\ db_xp' = RowsLeft(db_xp, t.guild)
                  \cup {<<t.guild, t.rows[i].user, t.rows[i].xp>> : i \in 1..Len(t.rows)}
    /\ tasks' = TaskDone(tasks, t)
    /\ UNCHANGED <<xp_data, last_write, first_access, last_add, ops, calc, save_failed, otherVars>>

-----------------------------------------------------------------------------
(* The moderation log: mod_stats, table mod_stats of the store, and the    *)
(* handlers and save_mod_stats coroutines that asyncio interleaves.        *)

\* the keys of a moderator's dict, in the order the literal lists them (of
\* the nine action kinds the model follows the ones warn_handler and
\* kick_handler record)                                   main.py:316-318
ModActions == <<"warned", "kicked">>

ModActionSet == {ModActions[j] : j \in 1..Len(ModActions)}

\* rows table mod_stats may hold when the process starts
InitModRows == <<<<1, 1, "warned", 0>>>>

\* {"commands": [], "warned": [], ...}                    main.py:296-297
NewModUser == [a \in ModActionSet |-> << >>]

\* d.setdefault(u, {...})[a].append(ts)                   main.py:295-298, 316-319
ModAppend(d, u, a, ts) ==
    IF HasKey(d, u)
    THEN [i \in 1..Len(d) |->
             IF d[i].user = u THEN [d[i] EXCEPT !.log[a] = Append(@, ts)] ELSE d[i]]
    ELSE Append(d, [user |-> u, log |-> [NewModUser EXCEPT ![a] = <<ts>>]])

\* the list mod_stats[g][u][a], empty when a key is missing
ModList(ms, g, u, a) ==
    IF g \in DOMAIN ms /\ HasKey(ms[g], u)
    THEN ms[g][CHOOSE i \in 1..Len(ms[g]) : ms[g][i].user = u].log[a]
    ELSE << >>

\* a coroutine of the moderation log; pc is the await it is suspended at
\*   handlers: select -> rows -> close;  save_mod_stats: start -> connect ->
\*   insert* -> commit.  pos is the (user, action, timestamp) position of the
\*   iterators of save_mod_stats; snap is the dict it iterates once
\*   mod_stats[g] has been rebound to another dict
ModTask(fn, g, u) ==
    [fn |-> fn, guild |-> g, user |-> u, pc |-> "start", rows |-> << >>,
     pos |-> <<0, 0, 0>>, size |-> 0, detached |-> FALSE, snap |-> << >>,
     had_entry |-> FALSE]

\* datetime.now(timezone.utc).isoformat(): later than every timestamp so far
ModNow == 1 + Len(mod_log)

\* mod_stats[guild_id] = {} rebinds the key: a save_mod_stats that iterates
\* the old dict keeps iterating that object              main.py:290, 305
Detach(ts, ms, g) ==
    BagOfAll(LAMBDA t : IF /\ t.fn = "save_mod_stats" /\ t.guild = g
                           /\ t.pc = "insert" /\ ~t.detached
                        THEN [t EXCEPT !.detached = TRUE, !.snap = ms[g]]
                        ELSE t, ts)

\* load_mod_stats up to its first await                   main.py:289-291
load_mod_stats(ms, g) == GuildPut(ms, g, << >>)

\* a handler is invoked and runs up to the first await of load_mod_stats
ModLoadCall(fn, g, u) ==
    /\ Count
    /\ BagCardinality(mod_tasks) < MaxTasks
    /\ mod_stats' = load_mod_stats(mod_stats, g)
    /\ mod_tasks' = create_task(
            IF g \in DOMAIN mod_stats THEN Detach(mod_tasks, mod_stats, g) ELSE mod_tasks,
            [ModTask(fn, g, u) EXCEPT !.pc = "select",
                                      !.had_entry = g \in DOMAIN mod_stats])
    /\ UNCHANGED <<db_mod, mod_log>>

\* warn_handler up to the first await of load_mod_stats; perm is the result
\* of has_permission                                      main.py:736-743
WarnHandler(g, mod, perm) ==
    /\ IF perm
       THEN ModLoadCall("warn_handler", g, mod)
       ELSE Count /\ UNCHANGED modVars
    /\ UNCHANGED notMod

\* modstats_handler, and on_guild_join / on_ready per guild, up to the first
\* await of load_mod_stats                        main.py:909-913, 961, 985
ModstatsHandler(g, u) ==
    /\ ModLoadCall("modstats_handler", g, u)
    /\ UNCHANGED notMod

\* rows of table mod_stats with guild_id = g, in rowid order
RECURSIVE SelectModRows(_, _)
SelectModRows(db, g) ==
    IF db = << >> THEN << >>
    ELSE (IF Head(db)[1] = g
          THEN <<[user |-> Head(db)[2], action |-> Head(db)[3], ts |-> Head(db)[4]]>>
          ELSE << >>) \o SelectModRows(Tail(db), g)

\* async for row in cursor: mod_stats[guild_id].setdefault(...)[action].append
RECURSIVE AssignModRows(_, _)
AssignModRows(d, rows) ==
    IF rows = << >> THEN d
    ELSE AssignModRows(ModAppend(d, Head(rows).user, Head(rows).action, Head(rows).ts),
                       Tail(rows))

IsModHandler(t) == t.fn \in {"warn_handler", "modstats_handler"}

\* the SELECT runs on the connection's thread             main.py:291-292
LoadModFetch(t) ==
    /\ IsModHandler(t) /\ t.pc = "select"
    /\ mod_tasks' = TaskStep(mod_tasks, t,
                        [t EXCEPT !.pc = "rows", !.rows = SelectModRows(db_mod, t.guild)])
    /\ UNCHANGED <<mod_stats, db_mod, mod_log, ops, notMod>>

\* the fetched rows are appended on the event loop; the cursor and the
\* connection are then closed, each with an await        main.py:293-298
LoadModApply(t) ==
    /\ IsModHandler(t) /\ t.pc = "rows"
    /\ t.guild \in DOMAIN mod_stats
    /\ mod_stats' = GuildPut(mod_stats, t.guild, AssignModRows(mod_stats[t.guild], t.rows))
    /\ mod_tasks' = TaskStep(mod_tasks, t, [t EXCEPT !.pc = "close", !.rows = << >>])
    /\ UNCHANGED <<db_mod, mod_log, ops, notMod>>

\* update_mod_stats(guild_id, user_id, action)            main.py:314-320
update_mod_stats(ms, ts, g, u, a, now) ==
    LET d == IF g \in DOMAIN ms THEN ms[g] ELSE << >>
    IN  [ms |-> GuildPut(ms, g, ModAppend(d, u, a, now)),
         ts |-> create_task(ts, ModTask("save_mod_stats", g, u))]

\* load_mod_stats returns to warn_handler, which records the action before
\* its next await                                         main.py:743-745
WarnRecord(t) ==
    /\ t.fn = "warn_handler" /\ t.pc = "close"
    /\ LET r == update_mod_stats(mod_stats, TaskDone(mod_tasks, t), t.guild, t.user,
                                 "warned", ModNow)
       IN  /\ mod_stats' = r.ms
           /\ mod_tasks' = r.ts
           /\ mod_log' = Append(mod_log, [guild |-> t.guild, user |-> t.user,
                                          action |-> "warned", ts |-> ModNow])
    /\ UNCHANGED <<db_mod, ops, notMod>>

\* load_mod_stats returns to modstats_handler, which reads the moderator's
\* lists and replies                                      main.py:913-918
ModstatsReply(t) ==
    /\ t.fn = "modstats_handler" /\ t.pc = "close"
    /\ mod_tasks' = TaskDone(mod_tasks, t)
    /\ UNCHANGED <<mod_stats, db_mod, mod_log, ops, notMod>>

\* save_mod_stats up to its first await                   main.py:300-303
SaveModStart(t) ==
    /\ t.fn = "save_mod_stats" /\ t.pc = "start"
    /\ mod_tasks' = IF t.guild \notin DOMAIN mod_stats
                    THEN TaskDone(mod_tasks, t)
                    ELSE TaskStep(mod_tasks, t, [t EXCEPT !.pc = "connect"])
    /\ UNCHANGED <<mod_stats, db_mod, mod_log, ops, notMod>>

ModWriteLocked ==
    \E t \in BagToSet(mod_tasks) : t.fn = "save_mod_stats" /\ t.pc \in {"insert", "commit"}

NoPos == <<0, 0, 0>>

\* the next timestamp of user i at or after action j, index k
RECURSIVE NextInUser(_, _, _, _)
NextInUser(obj, i, j, k) ==
    IF j > Len(ModActions) THEN NoPos
    ELSE IF k > Len(obj[i].log[ModActions[j]]) THEN NextInUser(obj, i, j + 1, 1)
    ELSE <<i, j, k>>

\* the first timestamp of the users from index i on
RECURSIVE FirstFrom(_, _)
FirstFrom(obj, i) ==
    IF i > Len(obj) THEN NoPos
    ELSE IF NextInUser(obj, i, 1, 1) # NoPos THEN NextInUser(obj, i, 1, 1)
    ELSE FirstFrom(obj, i + 1)

ModRowAt(obj, p) ==
    [user |-> obj[p[1]].user, action |-> ModActions[p[2]],
     ts |-> obj[p[1]].log[ModActions[p[2]]][p[3]]]

\* the three nested for loops advance to the next timestamp; "error" is the
\* RuntimeError of the dict iterator when the dict changed size
\*                                                        main.py:305-307
ModAdvance(obj, size, p) ==
    IF p # NoPos /\ NextInUser(obj, p[1], p[2], p[3] + 1) # NoPos
    THEN [kind |-> "row", pos |-> NextInUser(obj, p[1], p[2], p[3] + 1)]
    ELSE IF Len(obj) # size THEN [kind |-> "error", pos |-> NoPos]
    ELSE IF FirstFrom(obj, p[1] + 1) # NoPos
    THEN [kind |-> "row", pos |-> FirstFrom(obj, p[1] + 1)]
    ELSE [kind |-> "end", pos |-> NoPos]

\* the iterator's step of a save_mod_stats: the first or next INSERT is
\* issued, or the loops end, or the coroutine ends with the error
ModIterate(t, obj, size) ==
    LET a == ModAdvance(obj, size, t.pos)
    IN  IF a.kind = "error" THEN TaskDone(mod_tasks, t)
        ELSE IF a.kind = "end"
        THEN TaskStep(mod_tasks, t, [t EXCEPT !.pc = "commit", !.size = size])
        ELSE TaskStep(mod_tasks, t, [t EXCEPT !.pc = "insert", !.size = size,
                                              !.pos = a.pos,
                                              !.rows = Append(t.rows, ModRowAt(obj, a.pos))])

\* DELETE FROM mod_stats WHERE guild_id = ?, then the loops start
\*                                                        main.py:304-308
SaveModDelete(t) ==
    /\ t.fn = "save_mod_stats" /\ t.pc = "connect"
    /\ ~ModWriteLocked
    /\ t.guild \in DOMAIN mod_stats
    /\ mod_tasks' = ModIterate(t, mod_stats[t.guild], Len(mod_stats[t.guild]))
    /\ UNCHANGED <<mod_stats, db_mod, mod_log, ops, notMod>>

\* an INSERT has completed and the loops go on            main.py:305-311
SaveModInsert(t) ==
    /\ t.fn = "save_mod_stats" /\ t.pc = "insert"
    /\ t.detached \/ t.guild \in DOMAIN mod_stats
    /\ mod_tasks' = ModIterate(t, IF t.detached THEN t.snap ELSE mod_stats[t.guild], t.size)
    /\ UNCHANGED <<mod_stats, db_mod, mod_log, ops, notMod>>

RECURSIVE OtherGuildRows(_, _)
OtherGuildRows(db, g) ==
    IF db = << >> THEN << >>
    ELSE (IF Head(db)[1] # g THEN <<Head(db)>> ELSE << >>) \o OtherGuildRows(Tail(db), g)

\* await db.commit()                                      main.py:312
SaveModCommit(t) ==
    /\ t.fn = "save_mod_stats" /\ t.pc = "commit"
    /\ db_mod' = OtherGuildRows(db_mod, t.guild)
                   \o [i \in 1..Len(t.rows) |->
                          <<t.guild, t.rows[i].user, t.rows[i].action, t.rows[i].ts>>]
    /\ mod_tasks' = TaskDone(mod_tasks, t)
    /\ UNCHANGED <<mod_stats, mod_log, ops, notMod>>

-----------------------------------------------------------------------------
(* The deleted-media list: last_deleted_photo, table last_deleted_photo    *)
(* of the store, and on_message_delete with the save it awaits.            *)

\* if len(photos) > 10 ... [:10] ... LIMIT 10            main.py:344, 357, 998
MediaCap == 10

\* datetime.now(timezone.utc).isoformat(): later than every timestamp so far
MediaNow == 1 + Len(media_log)

\* photos.insert(0, {...})                               main.py:997
InsertPhoto(photos, entry) == <<entry>> \o photos

\* faulty variant: the newest entry is dropped
PopOldestFirst(photos) ==
    IF Len(photos) > MediaCap THEN Tail(photos) ELSE photos

\* if len(photos) > 10: photos.pop()                     main.py:998-999
PopOldest(photos) ==
    IF Len(photos) > MediaCap THEN SubSeq(photos, 1, Len(photos) - 1) ELSE photos

\* photos[:10]                                           main.py:357
FirstTen(photos) ==
    IF Len(photos) > MediaCap THEN SubSeq(photos, 1, MediaCap) ELSE photos

\* the coroutine of an on_message_delete, suspended in the statements of
\* save_last_deleted_photo: connect -> insert* -> commit
MediaTask(g) ==
    [fn |-> "on_message_delete", guild |-> g, pc |-> "connect", rows |-> << >>,
     todo |-> << >>]

\* on_message_delete up to the first await of save_last_deleted_photo; image
\* says whether the message carries an attachment with an image suffix
\*                                                      main.py:993-1001, 352-355
OnMessageDelete(g, author, image) ==
    /\ Len(media_log) < MaxDeletes
    /\ IF image
       THEN LET entry  == [author |-> author, ts |-> MediaNow]
                photos == IF g \in DOMAIN last_deleted_photo
                          THEN last_deleted_photo[g] ELSE << >>
            IN  /\ last_deleted_photo' =
                       GuildPut(last_deleted_photo, g, PopOldest(InsertPhoto(photos, entry)))
                /\ media_log' = Append(media_log, [guild |-> g, entry |-> entry])
                /\ media_tasks' = create_task(media_tasks, MediaTask(g))
       ELSE UNCHANGED <<last_deleted_photo, media_log, media_tasks>>
    /\ UNCHANGED <<db_photo, notMedia>>

\* DELETE FROM last_deleted_photo WHERE guild_id = ?, then the slice
\* last_deleted_photo[guild_id][:10] is taken and its first INSERT issued
\*                                                      main.py:356-358
SavePhotoDelete(t) ==
    /\ t.fn = "on_message_delete" /\ t.pc = "connect"
    /\ ~\E w \in BagToSet(media_tasks) : w.pc \in {"insert", "commit"}
    /\ t.guild \in DOMAIN last_deleted_photo
    /\ LET slice == FirstTen(last_deleted_photo[t.guild])
       IN  media_tasks' = TaskStep(media_tasks, t,
               IF slice = << >>
               THEN [t EXCEPT !.pc = "commit"]
               ELSE [t EXCEPT !.pc = "insert", !.rows = <<Head(slice)>>,
                              !.todo = Tail(slice)])
    /\ UNCHANGED <<last_deleted_photo, db_photo, media_log, notMedia>>

\* an INSERT has completed and the loop over the slice goes on
\*                                                      main.py:357-361
SavePhotoInsert(t) ==
    /\ t.fn = "on_message_delete" /\ t.pc = "insert"
    /\ media_tasks' = TaskStep(media_tasks, t,
               IF t.todo = << >>
               THEN [t EXCEPT !.pc = "commit"]
               ELSE [t EXCEPT !.rows = Append(t.rows, Head(t.todo)),
                              !.todo = Tail(t.todo)])
    /\ UNCHANGED <<last_deleted_photo, db_photo, media_log, notMedia>>

RECURSIVE OtherGuildPhotos(_, _)
OtherGuildPhotos(db, g) ==
    IF db = << >> THEN << >>
    ELSE (IF Head(db)[1] # g THEN <<Head(db)>> ELSE << >>) \o OtherGuildPhotos(Tail(db), g)

\* await db.commit(); on_message_delete then hands the message to
\* bot.process_commands                                  main.py:362, 1002
SavePhotoCommit(t) ==
    /\ t.fn = "on_message_delete" /\ t.pc = "commit"
    /\ db_photo' = OtherGuildPhotos(db_photo, t.guild)
                     \o [i \in 1..Len(t.rows) |-> <<t.guild, t.rows[i].author, t.rows[i].ts>>]
    /\ media_tasks' = TaskDone(media_tasks, t)
    /\ UNCHANGED <<last_deleted_photo, media_log, notMedia>>

\* the rows of guild g in table last_deleted_photo, as entries
PhotoRows(db, g) ==
    {[author |-> db[i][2], ts |-> db[i][3]] : i \in {j \in 1..Len(db) : db[j][1] = g}}

\* ORDER BY timestamp DESC LIMIT 10                      main.py:344
RECURSIVE NewestRows(_, _)
NewestRows(rows, n) ==
    IF rows = {} \/ n = 0 THEN << >>
    ELSE LET r == CHOOSE x \in rows : \A y \in rows : y.ts <= x.ts
         IN  <<r>> \o NewestRows(rows \ {r}, n - 1)

\* the coroutine of a caller of load_last_deleted_photo, suspended in it
LoadPhotoTask(g) ==
    [fn |-> "load_last_deleted_photo", guild |-> g, pc |-> "select", rows |-> << >>,
     todo |-> << >>]

\* load_last_deleted_photo up to its first await, as showlm_handler,
\* on_guild_join and on_ready call it: the list is rebound to an empty one
\*                                          main.py:340-342, 664, 963, 987
LoadPhotoCall(g) ==
    /\ BagCardinality(media_tasks) < MaxTasks
    /\ last_deleted_photo' = GuildPut(last_deleted_photo, g, << >>)
    /\ media_tasks' = create_task(media_tasks, LoadPhotoTask(g))
    /\ UNCHANGED <<db_photo, media_log, notMedia>>

\* the SELECT runs on the connection's thread and reads what is committed
\*                                                      main.py:343-346
LoadPhotoFetch(t) ==
    /\ t.fn = "load_last_deleted_photo" /\ t.pc = "select"
    /\ media_tasks' = TaskStep(media_tasks, t,
            [t EXCEPT !.pc = "rows",
                      !.rows = NewestRows(PhotoRows(db_photo, t.guild), MediaCap)])
    /\ UNCHANGED <<last_deleted_photo, db_photo, media_log, notMedia>>

\* async for row in cursor: last_deleted_photo[guild_id].append({...}); the
\* rows of one fetch are appended to the list the dict holds by now
\*                                                      main.py:347-350
LoadPhotoApply(t) ==
    /\ t.fn = "load_last_deleted_photo" /\ t.pc = "rows"
    /\ t.guild \in DOMAIN last_deleted_photo
    /\ last_deleted_photo' =
           GuildPut(last_deleted_photo, t.guild, last_deleted_photo[t.guild] \o t.rows)
    /\ media_tasks' = TaskDone(media_tasks, t)
    /\ UNCHANGED <<db_photo, media_log, notMedia>>

-----------------------------------------------------------------------------
(* The AFK map: afk_cache, table afk of the store, afk_handler and the     *)
(* AFK part of on_message. The "since" timestamp of an entry is left out.  *)

\* reason: str = "AFK"                                    main.py:675
AfkReasons == {"AFK"}

\* the prefix command a message carries: none, or afk with a reason
AfkCommands == {<< >>, <<"lunch">>}

\* rows table afk may hold when the process starts
InitAfkRows == {<<1, "AFK">>, <<2, "AFK">>}

\* the slot a removed key leaves in the dict's entry array
Tombstone == [user |-> 0, reason |-> ""]

\* afk_cache.get(u): the reason in a one-element sequence, << >> when absent
AfkLookup(d, u) ==
    IF HasKey(d, u)
    THEN <<d[CHOOSE i \in 1..Len(d) : d[i].user = u].reason>>
    ELSE << >>

\* faulty variant: the map is replaced by the one entry
AfkSetOnly(d, u, reason) == <<[user |-> u, reason |-> reason]>>

\* afk_cache[user.id] = {"reason": reason, ...}           main.py:677
AfkSet(d, u, reason) ==
    IF HasKey(d, u)
    THEN [i \in 1..Len(d) |->
             IF d[i].user = u THEN [user |-> u, reason |-> reason] ELSE d[i]]
    ELSE Append(d, [user |-> u, reason |-> reason])

\* faulty variant: every entry is removed
AfkPopAll(d, u) == [i \in 1..Len(d) |-> Tombstone]

\* afk_cache.pop(message.author.id)                       main.py:1009
AfkPop(d, u) == [i \in 1..Len(d) |-> IF d[i].user = u THEN Tombstone ELSE d[i]]

\* len(afk_cache)
AfkUsed(d) == Cardinality({i \in 1..Len(d) : d[i].user # 0})

\* a handler coroutine; pc is the await it is suspended at
\*   welcome -> connect -> insert* -> commit -> close -> notice -> connect ...
\* stage tells which save_afk it is in: the one after the pop ("pop") or the
\* one of afk_handler ("set"); pos, size, left are the dict iterator
AfkTask(fn, author, mention, cmd) ==
    [fn |-> fn, author |-> author, mention |-> mention, cmd |-> cmd,
     pc |-> "start", stage |-> "pop", pos |-> 0, size |-> 0, left |-> 0,
     rows |-> << >>, was_afk |-> FALSE, popped |-> FALSE]

AfkNone ==
    [op |-> "none", user |-> 0, reason |-> "", before |-> << >>,
     dispatched |-> FALSE, was_afk |-> FALSE, popped |-> FALSE]

\* afk_handler up to the first await of save_afk          main.py:675-678, 373-374
afk_handler(d, t, reason) ==
    [cache |-> AfkSet(d, t.author, reason),
     task  |-> [t EXCEPT !.pc = "connect", !.stage = "set", !.rows = << >>, !.pos = 0],
     last  |-> [op |-> "set", user |-> t.author, reason |-> reason, before |-> d,
                dispatched |-> t.fn = "on_message", was_afk |-> t.was_afk,
                popped |-> t.popped]]

\* await bot.process_commands(message): the command of the message, if any,
\* runs up to its first await                             main.py:1025, 1261-1264
ProcessCommands(d, t) ==
    IF t.cmd # << >>
    THEN afk_handler(d, t, t.cmd[1])
    ELSE [cache |-> d, task |-> [t EXCEPT !.pc = "done"],
          last |-> [op |-> "pass", user |-> t.author, reason |-> "", before |-> d,
                    dispatched |-> TRUE, was_afk |-> t.was_afk, popped |-> t.popped]]

\* for user in message.mentions: the notice for an AFK user is sent, and then
\* (the XP cooldown of lines 1019-1024 not elapsed) the command is processed
\*                                                        main.py:1014-1025
MentionLoop(d, t) ==
    IF t.mention # 0 /\ HasKey(d, t.mention)
    THEN [cache |-> d, task |-> [t EXCEPT !.pc = "notice"],
          last |-> [op |-> "notice", user |-> t.mention,
                    reason |-> AfkLookup(d, t.mention)[1], before |-> d,
                    dispatched |-> FALSE, was_afk |-> t.was_afk, popped |-> t.popped]]
    ELSE ProcessCommands(d, t)

\* on_message up to its first await                       main.py:1005-1012
on_message(d, t) ==
    IF HasKey(d, t.author)
    THEN LET d2 == AfkPop(d, t.author)
             t2 == [t EXCEPT !.pc = "welcome", !.was_afk = TRUE,
                             !.popped = ~HasKey(d2, t.author)]
         IN  [cache |-> d2, task |-> t2,
              last |-> [op |-> "pop", user |-> t.author,
                        reason |-> AfkLookup(d, t.author)[1], before |-> d,
                        dispatched |-> FALSE, was_afk |-> TRUE, popped |-> t2.popped]]
    ELSE MentionLoop(d, t)

\* the state a handler step leaves
AfkResult(r, ts) ==
    /\ afk_cache' = r.cache
    /\ afk_tasks' = IF r.task.pc = "done" THEN ts ELSE create_task(ts, r.task)
    /\ afk_last' = r.last

\* a message arrives; bot says whether its author is a bot  main.py:1004-1007
OnMessage(author, bot, mention, cmd) ==
    /\ Count
    /\ BagCardinality(afk_tasks) < MaxTasks
    /\ IF bot
       THEN /\ afk_last' = [AfkNone EXCEPT !.op = "bot", !.user = author,
                                           !.before = afk_cache]
            /\ UNCHANGED <<afk_cache, afk_tasks>>
       ELSE AfkResult(on_message(afk_cache, AfkTask("on_message", author, mention, cmd)),
                      afk_tasks)
    /\ UNCHANGED <<db_afk, notAfk>>

\* the slash command /afk                                 main.py:1061-1065
AfkSlash(user, reason) ==
    /\ Count
    /\ BagCardinality(afk_tasks) < MaxTasks
    /\ AfkResult(afk_handler(afk_cache, AfkTask("afk_slash", user, 0, << >>), reason),
                 afk_tasks)
    /\ UNCHANGED <<db_afk, notAfk>>

\* the welcome-back message is sent; save_afk runs up to its first await
\*                                                        main.py:1012-1013, 373-374
WelcomeSent(t) ==
    /\ t.pc = "welcome"
    /\ afk_tasks' = TaskStep(afk_tasks, t, [t EXCEPT !.pc = "connect", !.stage = "pop"])
    /\ UNCHANGED <<afk_cache, db_afk, afk_last, ops, notAfk>>

AfkWriteLocked == \E w \in BagToSet(afk_tasks) : w.pc \in {"insert", "commit"}

\* the first live slot of d after position pos, 0 when there is none
AfkNextSlot(d, pos) ==
    IF \E i \in (pos + 1)..Len(d) : d[i].user # 0
    THEN CHOOSE i \in (pos + 1)..Len(d) :
             d[i].user # 0 /\ \A j \in (pos + 1)..(i - 1) : d[j].user = 0
    ELSE 0

\* next(iterator) of afk_cache.items(): RuntimeError when the dict changed
\* size, or when it yields more items than the dict had        main.py:376
AfkIterate(d, t) ==
    LET n == AfkNextSlot(d, t.pos)
    IN  IF AfkUsed(d) # t.size THEN [t EXCEPT !.pc = "error"]
        ELSE IF n = 0 THEN [t EXCEPT !.pc = "commit"]
        ELSE IF t.left = 0 THEN [t EXCEPT !.pc = "error"]
        ELSE [t EXCEPT !.pc = "insert", !.pos = n, !.left = t.left - 1,
                       !.rows = Append(t.rows, d[n])]

\* the exception leaves save_afk and the handler that awaits it: the
\* handler ends there
AfkStep(t, t2) ==
    IF t2.pc = "error" THEN TaskDone(afk_tasks, t) ELSE TaskStep(afk_tasks, t, t2)

\* DELETE FROM afk, then the iterator over afk_cache.items() is created and
\* yields its first item                                  main.py:375-377
SaveAfkDelete(t) ==
    /\ t.pc = "connect"
    /\ ~AfkWriteLocked
    /\ afk_tasks' = AfkStep(t, AfkIterate(afk_cache,
                          [t EXCEPT !.pos = 0, !.size = AfkUsed(afk_cache),
                                    !.left = AfkUsed(afk_cache), !.rows = << >>]))
    /\ UNCHANGED <<afk_cache, db_afk, afk_last, ops, notAfk>>

\* an INSERT OR REPLACE has completed and the iterator is advanced
\*                                                        main.py:376-380
SaveAfkInsert(t) ==
    /\ t.pc = "insert"
    /\ afk_tasks' = AfkStep(t, AfkIterate(afk_cache, t))
    /\ UNCHANGED <<afk_cache, db_afk, afk_last, ops, notAfk>>

\* the table the inserted rows leave: user_id is the primary key, a later
\* row replaces an earlier one of the same user
AfkTable(rows) ==
    {<<rows[i].user, rows[i].reason>> :
        i \in {k \in 1..Len(rows) : \A j \in (k + 1)..Len(rows) : rows[j].user # rows[k].user}}

\* await db.commit()                                      main.py:381
SaveAfkCommit(t) ==
    /\ t.pc = "commit"
    /\ db_afk' = AfkTable(t.rows)
    /\ afk_tasks' = TaskStep(afk_tasks, t, [t EXCEPT !.pc = "close", !.rows = << >>])
    /\ UNCHANGED <<afk_cache, afk_last, ops, notAfk>>

\* save_afk returns to on_message, which goes on with the mentions
\*                                                        main.py:1013-1018
PopSaved(t) ==
    /\ t.pc = "close" /\ t.stage = "pop"
    /\ AfkResult(MentionLoop(afk_cache, t), TaskDone(afk_tasks, t))
    /\ UNCHANGED <<db_afk, ops, notAfk>>

\* the notice is sent; the message goes to the command processor
\*                                                        main.py:1018-1025
NoticeSent(t) ==
    /\ t.pc = "notice"
    /\ AfkResult(ProcessCommands(afk_cache, t), TaskDone(afk_tasks, t))
    /\ UNCHANGED <<db_afk, ops, notAfk>>

\* save_afk returns to afk_handler, which replies         main.py:678-680
SetSaved(t) ==
    /\ t.pc = "close" /\ t.stage = "set"
    /\ afk_tasks' = TaskDone(afk_tasks, t)
    /\ UNCHANGED <<afk_cache, db_afk, afk_last, ops, notAfk>>

-----------------------------------------------------------------------------
(* The leaderboard.                                                        *)

\* [:10]                                                  main.py:559
BoardSize == 10

\* [(get_member(uid), x) for uid, x in xp_data[g].items() if get_member(uid)]
\*                                                        main.py:558
RECURSIVE MemberXps(_, _)
MemberXps(d, ms) ==
    IF d = << >> THEN << >>
    ELSE (IF Head(d).user \in ms THEN <<Head(d)>> ELSE << >>) \o MemberXps(Tail(d), ms)

\* the place of e in a list sorted by descending xp: behind every element
\* whose xp is at least e's, so that equal keys keep their order
InsertDesc(r, e) ==
    LET k == Cardinality({i \in 1..Len(r) : r[i].xp >= e.xp})
    IN  SubSeq(r, 1, k) \o <<e>> \o SubSeq(r, k + 1, Len(r))

\* sorted(user_xps, key=lambda x: x[1], reverse=True): a stable sort
\*                                                        main.py:559
RECURSIVE SortedDesc(_, _)
SortedDesc(r, s) ==
    IF s = << >> THEN r ELSE SortedDesc(InsertDesc(r, Head(s)), Tail(s))

\* faulty variant: no truncation
TopAll(s) == s

\* [:10]                                                  main.py:559
Top(s) == IF Len(s) > BoardSize THEN SubSeq(s, 1, BoardSize) ELSE s

\* sorted_users                                           main.py:558-559
Leaderboard(d, ms) == Top(SortedDesc(<< >>, MemberXps(d, ms)))

NoBoard == [shown |-> FALSE, list |-> << >>]

\* leaderboard_handler in a guild whose XP is loaded: load_xp returns at
\* once and the list is built and sent                    main.py:553-565
LeaderboardHandler(g) ==
    /\ g \in DOMAIN xp_data
    /\ ~board.shown
    /\ board' = [shown |-> TRUE, list |-> Leaderboard(xp_data[g], members)]
    /\ UNCHANGED <<members, notBoard>>

-----------------------------------------------------------------------------
(* Guild settings: the command prefix and the level channel, written       *)
(* through to table settings by save_settings, which the handler awaits.   *)

\* os.getenv("PREFIX", "!") with PREFIX unset            main.py:55
DEFAULT_PREFIX == <<"!">>

\* level_channels.get(guild_id) of a guild without a channel   main.py:265
NoChannel == 0

\* the row of guild g                                   main.py:179-181
SettingsRow(db, g) == CHOOSE r \in db : r[1] = g

\* load_settings: prefixes[guild_id] = prefix or DEFAULT_PREFIX
\*                                                      main.py:174-180
LoadedPrefixes(ps, db) ==
    [g \in DOMAIN ps \cup {r[1] : r \in db} |->
        IF \E r \in db : r[1] = g
        THEN (IF SettingsRow(db, g)[2] = << >> THEN DEFAULT_PREFIX
              ELSE SettingsRow(db, g)[2])
        ELSE ps[g]]

\* load_settings: level_channels[guild_id] = level_channel  main.py:181
LoadedChannels(lc, db) ==
    [g \in DOMAIN lc |->
        IF \E r \in db : r[1] = g THEN SettingsRow(db, g)[3] ELSE lc[g]]

\* prefixes.get(guild_id, DEFAULT_PREFIX)               main.py:189
PrefixOf(ps, g) == IF g \in DOMAIN ps THEN ps[g] ELSE DEFAULT_PREFIX

\* set(prefixes.keys()) | set(level_channels.keys()); a guild is a key of
\* level_channels without being one of prefixes only when it has a channel
\*                                                      main.py:186
SettingsKeys(ps, lc) == DOMAIN ps \cup {g \in DOMAIN lc : lc[g] # NoChannel}

SettingTask(fn, g) == [fn |-> fn, guild |-> g, pc |-> "connect", rows |-> {}]

\* faulty variant: any platform permission passes the check
has_any_permission(perms, perm) == perms # {}

\* getattr(user.guild_permissions, perm, False); perms is the set of the
\* caller's permissions. The denial is sent and False returned otherwise
\*                                                      main.py:393-399
has_permission(perms, perm) == perm \in perms

\* len(new_prefix) > 10                                 main.py:464
MaxPrefixLen == 10

\* duration > 40320, the minutes of 28 days             main.py:755
MaxTimeout == 40320

\* not (len(new_prefix) > 10)                           main.py:464
ValidPrefix(p) == ~(Len(p) > MaxPrefixLen)

\* faulty variant: only the lower end of the range is checked
PositiveDuration(d) == ~(d <= 0)

\* not (duration <= 0 or duration > 40320)              main.py:755
ValidDuration(d) == ~(d <= 0 \/ d > MaxTimeout)

\* setprefix_handler up to the first await of save_settings; perm is the
\* result of has_permission                             main.py:458-467
SetPrefixHandler(g, new_prefix, perm) ==
    /\ Count
    /\ IF perm /\ ValidPrefix(new_prefix)
       THEN /\ BagCardinality(setting_tasks) < MaxTasks
            /\ prefixes' = GuildPut(prefixes, g, new_prefix)
            /\ setting_tasks' = create_task(setting_tasks, SettingTask("setprefix_handler", g))
       ELSE UNCHANGED <<prefixes, setting_tasks>>
    /\ UNCHANGED <<db_settings, invocation, rewardVars, notSet>>

\* levelchannelset_handler up to the first await of save_settings
\*                                                      main.py:616-622
LevelChannelSetHandler(g, channel, perm) ==
    /\ Count
    /\ IF perm
       THEN /\ BagCardinality(setting_tasks) < MaxTasks
            /\ level_channels' = [level_channels EXCEPT ![g] = channel]
            /\ setting_tasks' = create_task(setting_tasks,
                                            SettingTask("levelchannelset_handler", g))
       ELSE UNCHANGED <<level_channels, setting_tasks>>
    /\ UNCHANGED <<prefixes, db_settings, invocation, guild_roles, member_roles,
                   notify_tasks, notes, levelups, notify_errors, notSet>>

\* a connection that has written holds SQLite's write lock until it commits
SettingsWriteLocked == \E w \in BagToSet(setting_tasks) : w.pc \in {"insert", "commit"}

\* DELETE FROM settings, then the set of the keys is built  main.py:185-186
SettingsDelete(t) ==
    /\ t.pc = "connect"
    /\ ~SettingsWriteLocked
    /\ db_settings' = {}
    /\ setting_tasks' = TaskStep(setting_tasks, t,
            [t EXCEPT !.pc = "insert", !.rows = SettingsKeys(prefixes, level_channels)])
    /\ UNCHANGED <<prefixes, invocation, ops, rewardVars, notSet>>

\* one INSERT OR REPLACE, with the values the dicts hold when it is issued;
\* a set is iterated in an order the program does not choose
\*                                                      main.py:186-190
SettingsInsert(t) ==
    /\ t.pc = "insert"
    /\ IF t.rows = {}
       THEN /\ setting_tasks' = TaskStep(setting_tasks, t, [t EXCEPT !.pc = "commit"])
            /\ db_settings' = db_settings
       ELSE \E g \in t.rows :
              /\ db_settings' = {r \in db_settings : r[1] # g}
                                    \cup {<<g, PrefixOf(prefixes, g), level_channels[g]>>}
              /\ setting_tasks' = TaskStep(setting_tasks, t, [t EXCEPT !.rows = @ \ {g}])
    /\ UNCHANGED <<prefixes, invocation, ops, rewardVars, notSet>>

\* await db.commit(); the handler then sends its reply  main.py:191, 468-469
SettingsCommit(t) ==
    /\ t.pc = "commit"
    /\ setting_tasks' = TaskDone(setting_tasks, t)
    /\ UNCHANGED <<prefixes, db_settings, invocation, ops, rewardVars, notSet>>

\* kick_handler up to the first await of load_mod_stats  main.py:682-689
KickHandler(g, mod, perm) ==
    /\ IF perm
       THEN ModLoadCall("kick_handler", g, mod)
       ELSE Count /\ UNCHANGED modVars
    /\ UNCHANGED notMod

\* timeout_handler up to the first await of load_mod_stats
\*                                                      main.py:749-758
TimeoutHandler(g, mod, duration, perm) ==
    /\ IF perm /\ ValidDuration(duration)
       THEN ModLoadCall("timeout_handler", g, mod)
       ELSE Count /\ UNCHANGED modVars
    /\ UNCHANGED notMod

\* the permission each gated command asks has_permission for
\*                       main.py:462, 570, 584, 599, 619, 686, 740, 753
Required ==
    [setprefix |-> "manage_guild", xp_add |-> "manage_guild", xp_remove |-> "manage_guild",
     level_set |-> "manage_guild", levelchannelset |-> "manage_guild",
     kick |-> "kick_members", warn |-> "kick_members", timeout |-> "moderate_members"]

\* the library parses a command and calls its handler: the invocation is
\* recorded when it arrives, and the handler runs as the command's next step
Invoke(c) ==
    /\ invocation.seq = ops
    /\ ops < MaxOps
    /\ invocation' = [c EXCEPT !.seq = ops + 1]
    /\ UNCHANGED <<progVars, calc, modVars, mediaVars, afkVars, boardVars, rewardVars,
                   startVars, setVars, msgVars>>

\* the handler of the recorded invocation is the one that runs
Handling(name) == invocation.seq = ops + 1 /\ invocation.name = name

\* has_permission for the recorded invocation
Permitted == has_permission(invocation.perms, Required[invocation.name])

-----------------------------------------------------------------------------
(* Level rewards: add_user_xp awaits notify_level_up, which grants the     *)
(* role of a reward level and announces the level in the guild's level     *)
(* channel. guild.create_role, member.add_roles and channel.send are       *)
(* requests to the gateway: the coroutine is suspended at each of them.    *)

\* main.py:256
level_rewards == (5 :> "VIP") @@ (10 :> "Premium") @@ (20 :> "Moderator")

\* no role: discord.utils.get found none                       main.py:274
NoRole == 0
\* reward_msg = ""                                             main.py:271
NoReward == ""

\* the channels the guild has (guild.get_channel finds them), and the ids a
\* stored setting may name (channel 2 was deleted)             main.py:268
Channels == {1}
ChannelIds == {1, 2}

\* faulty variant: the guild's roles are not looked up
FindNoRole(roles, name) == NoRole

\* discord.utils.get(guild.roles, name=role_name): the first role of that
\* name                                               main.py:274
FindRole(roles, name) ==
    LET is == {i \in 1..Len(roles) : roles[i] = name}
    IN  IF is = {} THEN NoRole ELSE CHOOSE i \in is : \A j \in is : i <= j

\* faulty variant: the reward of the greatest reward level reached or passed
RewardPassed(new_level) ==
    LET ks == {k \in DOMAIN level_rewards : k <= new_level}
    IN  IF ks = {} THEN NoReward
        ELSE level_rewards[CHOOSE k \in ks : \A j \in ks : j <= k]

\* if new_level in level_rewards: role_name = level_rewards[new_level]
\*                                                    main.py:272-273
RewardFor(new_level) ==
    IF new_level \in DOMAIN level_rewards THEN level_rewards[new_level] ELSE NoReward

NotifyTask(g, u, level, pc, role) ==
    [guild |-> g, user |-> u, level |-> level, pc |-> pc, role |-> role]

\* notify_level_up up to its first await: it returns when the member, the
\* channel setting or the channel is missing; otherwise it is suspended in
\* create_role, in add_roles or, without a reward, in channel.send
\*                                                    main.py:258-286
notify_level_up(nt, g, u, new_level) ==
    IF u \notin members THEN nt
    ELSE IF level_channels[g] = NoChannel THEN nt
    ELSE IF level_channels[g] \notin Channels THEN nt
    ELSE IF RewardFor(new_level) # NoReward
         THEN LET role == FindRole(guild_roles, RewardFor(new_level))
              IN  IF role = NoRole
                  THEN nt (+) SetToBag({NotifyTask(g, u, new_level, "create_role", NoRole)})
                  ELSE nt (+) SetToBag({NotifyTask(g, u, new_level, "add_roles", role)})
         ELSE nt (+) SetToBag({NotifyTask(g, u, new_level, "send", NoRole)})

\* await add_user_xp(guild, user, amount), with the call of notify_level_up
\* it makes on a level-up; what the caller does once it returns is the
\* caller's                                            main.py:226-233
AwaitAddUserXp(g, u, amount) ==
    LET current == CachedXp(xp_data, g, u)
        r       == add_user_xp(State, g, u, amount)
    IN  /\ ops < MaxRewardOps
        /\ ops' = ops + 1
        /\ current + amount <= MaxRewardXp
        /\ BagCardinality(r.ts) <= MaxTasks
        /\ xp_data' = r.xd
        /\ Accessed("add", g, u, r.ts)
        /\ last_write' = [last_write EXCEPT ![<<g, u>>] = Max(0, current + amount)]
        /\ last_add' = [op |-> "add", guild |-> g, user |-> u, current |-> current,
                        amount |-> amount, signal |-> r.signal,
                        stored |-> CachedXp(r.xd, g, u), chained |-> FALSE,
                        current0 |-> 0, amount0 |-> 0]
        /\ IF r.signal = << >>
           THEN UNCHANGED <<notify_tasks, levelups>>
           ELSE /\ notify_tasks' = notify_level_up(notify_tasks, g, u, r.signal[1])
                /\ levelups' = Append(levelups,
                                  [guild |-> g, user |-> u,
                                   old |-> get_level(current), level |-> r.signal[1],
                                   channel |-> level_channels[g],
                                   current |-> current, amount |-> amount,
                                   roles |-> member_roles[u],
                                   guild_roles |-> guild_roles,
                                   quiet |-> notify_tasks = EmptyBag])
        /\ UNCHANGED <<db_xp, calc, save_failed, modVars, mediaVars, afkVars, boardVars,
                       level_channels, guild_roles, member_roles, notes, notify_errors,
                       startVars, setVars, invocation>>

\* await add_user_xp(guild, user, amount) of xp_add_handler, which then
\* replies                                             main.py:575-579
AddUserXpNotify(g, u, amount) ==
    /\ AwaitAddUserXp(g, u, amount)
    /\ UNCHANGED msgVars

\* faulty variant: the level is set through add_user_xp, which signals it
LevelSetThroughAdd(g, u, level) ==
    AddUserXpNotify(g, u, xp_for_level(level) - CachedXp(xp_data, g, u))

\* level_set_handler of a permitted caller, with targets up to MaxRewardXp
\*                                                      main.py:596-607
LevelSet(g, u, level) ==
    /\ ops < MaxRewardOps
    /\ ops' = ops + 1
    /\ xp_for_level(level) <= MaxRewardXp
    /\ level_set_handler(g, u, level, TRUE)

\* role = await guild.create_role(name=role_name, ...)  main.py:275-276
NotifyCreateRole(t) ==
    /\ t \in BagToSet(notify_tasks)
    /\ t.pc = "create_role"
    /\ guild_roles' = Append(guild_roles, RewardFor(t.level))
    /\ notify_tasks' = (notify_tasks (-) SetToBag({t}))
                         (+) SetToBag({[t EXCEPT !.pc = "add_roles",
                                                 !.role = Len(guild_roles) + 1]})
    /\ UNCHANGED <<level_channels, member_roles, notes, levelups, notify_errors, notReward>>

\* await member.add_roles(role, ...)                    main.py:277
NotifyAddRoles(t) ==
    /\ t \in BagToSet(notify_tasks)
    /\ t.pc = "add_roles"
    /\ member_roles' = [member_roles EXCEPT ![t.user] = @ \cup {t.role}]
    /\ notify_tasks' = (notify_tasks (-) SetToBag({t}))
                         (+) SetToBag({[t EXCEPT !.pc = "send"]})
    /\ UNCHANGED <<level_channels, guild_roles, notes, levelups, notify_errors, notReward>>

\* await channel.send(embed=embed); notify_level_up and add_user_xp return
\*                                                      main.py:278-286
NotifySent(t) ==
    /\ t \in BagToSet(notify_tasks)
    /\ t.pc = "send"
    /\ notes' = Append(notes, [guild |-> t.guild, user |-> t.user, level |-> t.level,
                               reward |-> RewardFor(t.level)])
    /\ notify_tasks' = notify_tasks (-) SetToBag({t})
    /\ UNCHANGED <<level_channels, guild_roles, member_roles, levelups, notify_errors>>

\* the notification is sent and xp_add_handler, the caller, replies
\*                                                      main.py:286, 575-579
NotifySend(t) ==
    /\ NotifySent(t)
    /\ UNCHANGED notReward

\* faulty variant: the failed request is made again
NotifyRetried(nt, t) == nt

\* no try/except around the three requests, in add_user_xp or in
\* xp_add_handler: the exception ends the coroutine and its callers
\*                                                    main.py:233, 276-286
NotifyRaised(nt, t) == nt (-) SetToBag({t})

\* guild.create_role, member.add_roles or channel.send raises (Forbidden,
\* HTTPException)                                     main.py:276, 277, 286
NotifyFailed(t) ==
    /\ t \in BagToSet(notify_tasks)
    /\ t.pc \in {"create_role", "add_roles", "send"}
    /\ notify_tasks' = NotifyRaised(notify_tasks, t)
    /\ notify_errors' = Append(notify_errors,
                               [guild |-> t.guild, user |-> t.user, level |-> t.level,
                                pc |-> t.pc])
    /\ UNCHANGED <<level_channels, guild_roles, member_roles, notes, levelups>>

\* the exception leaves notify_level_up, add_user_xp and xp_add_handler,
\* the caller                                          main.py:233, 575
NotifyFail(t) ==
    /\ NotifyFailed(t)
    /\ UNCHANGED notReward

-----------------------------------------------------------------------------
(* Passive XP: on_message of an ordinary guild message of a member who is  *)
(* not a bot, is not AFK and mentions nobody. It awaits add_user_xp when   *)
(* the author's cooldown has passed, sets the cooldown and hands the       *)
(* message to bot.process_commands.                     main.py:1004-1025  *)

\* now - guild_cd.get(author, 0) > 120                  main.py:1022
MsgCooldown == 120

\* the seconds the clock advances by in one step: one step stays inside the
\* cooldown, two steps pass it
TickSeconds == 61

\* the variables passive XP leaves alone, the level rewards apart
notMsg ==
    <<db_xp, calc, save_failed, modVars, mediaVars, afkVars, boardVars, startVars, setVars,
      invocation, cmdVars>>

\* the on_message coroutine of one message: pc is "add_user_xp" while it
\* awaits add_user_xp, "done" once it has returned and "raised" once an
\* exception has left it; level is the level add_user_xp notifies, granted
\* says whether add_user_xp was called and amount with what
Message(g, author, now, level, granted, amount) ==
    [guild |-> g, author |-> author, now |-> now, level |-> level,
     pc |-> "add_user_xp", granted |-> granted, amount |-> amount,
     failed |-> FALSE, cooled |-> FALSE, processed |-> FALSE]

\* guild_cd[message.author.id] = now, then await bot.process_commands(message)
\*                                                      main.py:1024-1025
Resumed(m) == [m EXCEPT !.pc = "done", !.cooled = TRUE, !.processed = TRUE]

\* no try/except in on_message: the exception of add_user_xp leaves it
\* before the cooldown is set and before process_commands
\*                                                      main.py:1023-1025
Raised(m) == [m EXCEPT !.pc = "raised", !.failed = TRUE]

\* time passes
Tick ==
    /\ clock < StartClock + MaxTicks * TickSeconds
    /\ clock' = clock + TickSeconds
    /\ UNCHANGED <<msg_cooldown, inbox, cmdVars, progVars, calc, modVars, mediaVars,
                   afkVars, boardVars, rewardVars, startVars, setVars, invocation>>

\* on_message up to its first suspension or its return   main.py:1004-1025
OnMessageXp(g, author, amount) ==
    /\ Len(inbox) < MaxMessages
    /\ clock' = clock
    /\ IF clock - msg_cooldown[<<g, author>>] > MsgCooldown
       THEN LET r == add_user_xp(State, g, author, amount)
                suspended == /\ r.signal # << >>
                             /\ notify_level_up(notify_tasks, g, author, r.signal[1])
                                    # notify_tasks
                m == Message(g, author, clock,
                             IF r.signal = << >> THEN NoValue ELSE r.signal[1], TRUE,
                             amount)
            IN  /\ AwaitAddUserXp(g, author, amount)
                /\ inbox' = Append(inbox, IF suspended THEN m ELSE Resumed(m))
                /\ msg_cooldown' = IF suspended THEN msg_cooldown
                                   ELSE [msg_cooldown EXCEPT ![<<g, author>>] = clock]
                /\ UNCHANGED cmdVars
       ELSE /\ inbox' = Append(inbox,
                    [Message(g, author, clock, NoValue, FALSE, 0)
                        EXCEPT !.pc = "done", !.processed = TRUE])
            /\ UNCHANGED <<msg_cooldown, progVars, rewardVars, notMsg>>

\* the on_message coroutines that await the notification t
Awaiters(t) ==
    {i \in 1..Len(inbox) :
        /\ inbox[i].pc = "add_user_xp"
        /\ inbox[i].guild = t.guild /\ inbox[i].author = t.user
        /\ inbox[i].level = t.level}

\* the notification is sent, add_user_xp returns to on_message, which sets
\* the cooldown to the time it read before the await and calls
\* process_commands                                     main.py:286, 1023-1025
MessageNotifySend(t) ==
    /\ NotifySent(t)
    /\ \E i \in Awaiters(t) :
          /\ inbox' = [inbox EXCEPT ![i] = Resumed(@)]
          /\ msg_cooldown' = [msg_cooldown EXCEPT ![<<t.guild, t.user>>] = inbox[i].now]
    /\ UNCHANGED <<clock, progVars, notMsg>>

\* a request of the notification raises: the exception leaves
\* notify_level_up, add_user_xp and on_message         main.py:233, 1023
MessageNotifyFail(t) ==
    /\ NotifyFailed(t)
    /\ \E i \in Awaiters(t) : inbox' = [inbox EXCEPT ![i] = Raised(@)]
    /\ UNCHANGED <<msg_cooldown, clock, progVars, notMsg>>

-----------------------------------------------------------------------------
(* Command messages. A message "!xpadd @member amount" is handed to        *)
(* bot.process_commands by on_message, after the passive XP of its author, *)
(* and once more by on_message_delete when it is deleted. The case         *)
(* followed is a guild without level channel: notify_level_up returns at   *)
(* once, so both handlers reach the reply of xp_add_handler without        *)
(* suspension.                            main.py:992-1025, 1382-1386      *)

\* @commands.cooldown(1, 60.0, commands.BucketType.guild): one invocation
\* per guild and window of 60 seconds                   main.py:1384
CommandCooldown == 60

\* the bucket lets an invocation through, and starts a new window, when the
\* window of the latest one it let through has passed
BucketFree(cd, g, now) == now > cd[g] + CommandCooldown

\* a message with an xpadd command and no attachment; perm says whether its
\* author holds manage_guild, runs counts the calls of xp_add_handler
Post(g, author, member, amount, perm) ==
    [guild |-> g, author |-> author, member |-> member, amount |-> amount,
     perm |-> perm, deleted |-> FALSE, runs |-> 0]

\* bot.process_commands(message) for an xpadd message: the permission check
\* of the command, its cooldown, then xp_add_handler up to its reply
\*                                                      main.py:567-579, 1382-1386
process_commands(st, cd, p, now) ==
    IF ~p.perm \/ ~BucketFree(cd, p.guild, now)
    THEN [xd |-> st.xd, ts |-> st.ts, cd |-> cd, ran |-> FALSE]
    ELSE LET r == IF p.amount >= 1
                  THEN add_user_xp(st, p.guild, p.member, p.amount)
                  ELSE [xd |-> st.xd, ts |-> st.ts, signal |-> << >>]
         IN  [xd |-> r.xd, ts |-> r.ts, cd |-> [cd EXCEPT ![p.guild] = now],
              ran |-> TRUE]

\* history: the totals add_user_xp stored for the author, when passive XP
\* was granted, and for the member of an executed command
Written(lw, c, p, granted) ==
    [q \in DOMAIN lw |->
        IF \/ q = <<p.guild, p.member>> /\ c.ran /\ p.amount >= 1
           \/ q = <<p.guild, p.author>> /\ granted
        THEN CachedXp(c.xd, q[1], q[2])
        ELSE lw[q]]

\* on_message for a command message: passive XP of the author when the
\* cooldown has passed, then process_commands           main.py:1004-1025
OnCommandMessage(g, author, member, amount, perm, passive) ==
    LET granted == clock - msg_cooldown[<<g, author>>] > MsgCooldown
        r == IF granted THEN add_user_xp(State, g, author, passive)
             ELSE [xd |-> xp_data, ts |-> tasks, signal |-> << >>]
        p == Post(g, author, member, amount, perm)
        c == process_commands([xd |-> r.xd, ts |-> r.ts], cooldowns, p, clock)
    IN  /\ Len(posts) < MaxPosts
        /\ author # member
        /\ level_channels[g] = NoChannel
        /\ BagCardinality(c.ts) <= MaxTasks
        /\ msg_cooldown' = IF granted THEN [msg_cooldown EXCEPT ![<<g, author>>] = clock]
                           ELSE msg_cooldown
        /\ xp_data' = c.xd
        /\ tasks' = c.ts
        /\ cooldowns' = c.cd
        /\ posts' = Append(posts, [p EXCEPT !.runs = IF c.ran THEN 1 ELSE 0])
        /\ last_write' = Written(last_write, c, p, granted)
        /\ UNCHANGED <<db_xp, first_access, last_add, save_failed, ops, calc, clock,
                       inbox, modVars, mediaVars, afkVars, boardVars, rewardVars,
                       startVars, setVars, invocation>>

\* on_message_delete for the command message i: it has no attachment, so
\* the handler only calls process_commands              main.py:992-1002
OnCommandMessageDelete(i) ==
    LET p == posts[i]
        c == process_commands(State, cooldowns, p, clock)
    IN  /\ ~p.deleted
        /\ level_channels[p.guild] = NoChannel
        /\ BagCardinality(c.ts) <= MaxTasks
        /\ xp_data' = c.xd
        /\ tasks' = c.ts
        /\ cooldowns' = c.cd
        /\ posts' = [posts EXCEPT ![i] = [p EXCEPT !.deleted = TRUE,
                                                  !.runs = IF c.ran THEN @ + 1 ELSE @]]
        /\ last_write' = Written(last_write, c, p, FALSE)
        /\ UNCHANGED <<db_xp, first_access, last_add, save_failed, ops, calc, clock,
                       inbox, msg_cooldown, modVars, mediaVars, afkVars, boardVars,
                       rewardVars, startVars, setVars, invocation>>

-----------------------------------------------------------------------------
(* Specifications.                                                         *)

InitProg ==
    /\ tasks = EmptyBag
    /\ last_write = [p \in Guilds \X Users |-> NoValue]
    /\ first_access = [g \in Guilds |-> NoAccess]
    /\ last_add = AddIdle
    /\ save_failed = FALSE
    /\ ops = 0

\* nothing of the moderation log exists
ModIdle ==
    /\ mod_stats = << >>
    /\ db_mod = << >>
    /\ mod_tasks = EmptyBag
    /\ mod_log = << >>

\* nothing of the deleted-media list exists
MediaIdle ==
    /\ last_deleted_photo = << >>
    /\ db_photo = << >>
    /\ media_tasks = EmptyBag
    /\ media_log = << >>

\* nothing of the AFK map exists
AfkIdle ==
    /\ afk_cache = << >>
    /\ db_afk = {}
    /\ afk_tasks = EmptyBag
    /\ afk_last = AfkNone

\* no leaderboard was asked for
BoardIdle ==
    /\ members = {}
    /\ board = NoBoard

\* no guild has a level channel, a role or a pending notification; every
\* level-up then returns from notify_level_up at main.py:266-267
RewardIdle ==
    /\ level_channels = [g \in Guilds |-> NoChannel]
    /\ guild_roles = << >>
    /\ member_roles = [u \in Users |-> {}]
    /\ notify_tasks = EmptyBag
    /\ notes = << >>
    /\ levelups = << >>
    /\ notify_errors = << >>

\* the process after a completed startup, without its backup task
StartIdle ==
    /\ boot = [token |-> FALSE, schema |-> TRUE, loaded |-> TRUE]
    /\ readies = << >>
    /\ backups = << >>

\* no guild has a prefix of its own and no command is in flight
SettingsIdle ==
    /\ prefixes = << >>
    /\ db_settings = {}
    /\ setting_tasks = EmptyBag
    /\ invocation = NoCommand

\* no ordinary message has arrived
MsgIdle ==
    /\ msg_cooldown = [q \in Guilds \X Users |-> 0]
    /\ clock = StartClock
    /\ inbox = << >>
    /\ cooldowns = [g \in Guilds |-> 0]
    /\ posts = << >>

\* the xp cache as the module leaves it at import        main.py:66-73
XpIdle ==
    /\ InitProg
    /\ db_xp = {}
    /\ xp_data = << >>
    /\ calc = CalcIdle

\* the xp_data a completed load_xp of every guild leaves   main.py:960-962
LoadedFrom(db) ==
    [g \in Guilds |-> AssignRows(<< >>, SelectRows(RowsOf(db, g)))]

\* the store as an earlier run of the bot left it, and either nothing loaded
\* (module import, main.py:70) or every guild loaded by on_ready before the
\* first event is handled
Init ==
    /\ InitProg
    /\ db_xp \in {{}, InitRows}
    /\ xp_data \in {<< >>, LoadedFrom(db_xp)}
    /\ calc = CalcIdle
    /\ ModIdle
    /\ MediaIdle
    /\ AfkIdle
    /\ BoardIdle
    /\ RewardIdle
    /\ StartIdle
    /\ SettingsIdle
    /\ MsgIdle

Next ==
    \/ \E g \in Guilds, u \in Users : GetUserXp(g, u)
    \/ \E g \in Guilds, u \in Users, x \in SetValues : SetUserXp(g, u, x)
    \/ \E g \in Guilds, u \in Users, a \in Amounts : AddUserXp(g, u, a)
    \/ \E g \in Guilds, u \in Users, a \in HandlerAmounts, perm \in BOOLEAN :
          XpAddHandler(g, u, a, perm)
    \/ \E g \in Guilds, u \in Users, a \in HandlerAmounts, perm \in BOOLEAN :
          XpRemoveHandler(g, u, a, perm)
    \/ \E g \in Guilds, u \in Users, l \in HandlerLevels, perm \in BOOLEAN :
          LevelSetHandler(g, u, l, perm)
    \/ \E g \in Guilds : OnGuildJoin(g)
    \/ \E t \in BagToSet(tasks) : LoadStart(t)
    \/ \E t \in BagToSet(tasks) : LoadFetch(t)
    \/ \E t \in BagToSet(tasks) : LoadApply(t)
    \/ \E t \in BagToSet(tasks) : SaveStart(t)
    \/ \E t \in BagToSet(tasks) : SaveDelete(t)
    \/ \E t \in BagToSet(tasks) : SaveInsert(t)
    \/ \E t \in BagToSet(tasks) : SaveCommit(t)
    \/ \E t \in BagToSet(tasks) : SaveFail(t)

Spec == Init /\ [][Next]_vars

InitLevel ==
    /\ InitProg
    /\ db_xp = {}
    /\ xp_data = << >>
    /\ calc \in {CalcStart("xp", a) : a \in MinXpArg..MaxXpArg}
                  \cup {CalcStart("level", l) : l \in 0..MaxLevelArg}
    /\ ModIdle
    /\ MediaIdle
    /\ AfkIdle
    /\ BoardIdle
    /\ RewardIdle
    /\ StartIdle
    /\ SettingsIdle
    /\ MsgIdle

NextLevel ==
    \/ CalcGetLevel
    \/ CalcInfo
    \/ CalcNextXp
    \/ CalcXpStart
    \/ CalcTargetXp
    \/ CalcBack

SpecLevel == InitLevel /\ [][NextLevel]_vars

\* the mod_stats a completed load_mod_stats of every guild leaves  main.py:960-961
ModLoadedFrom(db) ==
    [g \in Guilds |-> AssignModRows(<< >>, SelectModRows(db, g))]

InitMod ==
    /\ XpIdle
    /\ MediaIdle
    /\ AfkIdle
    /\ BoardIdle
    /\ RewardIdle
    /\ StartIdle
    /\ SettingsIdle
    /\ MsgIdle
    /\ mod_tasks = EmptyBag
    /\ mod_log = << >>
    /\ db_mod \in {<< >>, InitModRows}
    /\ mod_stats \in {<< >>, ModLoadedFrom(db_mod)}

NextMod ==
    \/ \E g \in Guilds, u \in Users, perm \in BOOLEAN : WarnHandler(g, u, perm)
    \/ \E g \in Guilds, u \in Users : ModstatsHandler(g, u)
    \/ \E t \in BagToSet(mod_tasks) : LoadModFetch(t)
    \/ \E t \in BagToSet(mod_tasks) : LoadModApply(t)
    \/ \E t \in BagToSet(mod_tasks) : WarnRecord(t)
    \/ \E t \in BagToSet(mod_tasks) : ModstatsReply(t)
    \/ \E t \in BagToSet(mod_tasks) : SaveModStart(t)
    \/ \E t \in BagToSet(mod_tasks) : SaveModDelete(t)
    \/ \E t \in BagToSet(mod_tasks) : SaveModInsert(t)
    \/ \E t \in BagToSet(mod_tasks) : SaveModCommit(t)

SpecMod == InitMod /\ [][NextMod]_vars

\* an empty table last_deleted_photo, and either nothing loaded or the empty
\* list that load_last_deleted_photo leaves for every guild  main.py:341, 963
InitMedia ==
    /\ XpIdle
    /\ ModIdle
    /\ AfkIdle
    /\ BoardIdle
    /\ RewardIdle
    /\ StartIdle
    /\ SettingsIdle
    /\ MsgIdle
    /\ db_photo = << >>
    /\ media_tasks = EmptyBag
    /\ media_log = << >>
    /\ last_deleted_photo \in {<< >>, [g \in Guilds |-> << >>]}

\* deletions are handled one at a time: the next message is deleted when the
\* handler of the one before has returned
NextMedia ==
    \/ \E g \in Guilds, a \in Users, image \in BOOLEAN :
          media_tasks = EmptyBag /\ OnMessageDelete(g, a, image)
    \/ \E t \in BagToSet(media_tasks) : SavePhotoDelete(t)
    \/ \E t \in BagToSet(media_tasks) : SavePhotoInsert(t)
    \/ \E t \in BagToSet(media_tasks) : SavePhotoCommit(t)

SpecMedia == InitMedia /\ [][NextMedia]_vars

\* table last_deleted_photo as an earlier run left it: ten images of guild
\* 1, with timestamps before every timestamp of this run
StoredPhotos == [i \in 1..MediaCap |-> <<1, 1, i - MediaCap>>]

\* the list on_ready loaded from the store                main.py:963
LoadedPhotos(db) == [g \in Guilds |-> NewestRows(PhotoRows(db, g), MediaCap)]

\* the deleted-media list with the store full and loaded
InitReload ==
    /\ XpIdle
    /\ ModIdle
    /\ AfkIdle
    /\ BoardIdle
    /\ RewardIdle
    /\ StartIdle
    /\ SettingsIdle
    /\ MsgIdle
    /\ db_photo = StoredPhotos
    /\ media_tasks = EmptyBag
    /\ media_log = << >>
    /\ last_deleted_photo = LoadedPhotos(db_photo)

\* deletions and loads arrive while earlier handlers are suspended
NextReload ==
    \/ \E g \in Guilds, a \in Users :
          /\ Len(media_log) < MaxReloadDeletes
          /\ BagCardinality(media_tasks) < MaxTasks
          /\ OnMessageDelete(g, a, TRUE)
    \/ \E g \in Guilds : LoadPhotoCall(g)
    \/ \E t \in BagToSet(media_tasks) : LoadPhotoFetch(t)
    \/ \E t \in BagToSet(media_tasks) : LoadPhotoApply(t)
    \/ \E t \in BagToSet(media_tasks) : SavePhotoDelete(t)
    \/ \E t \in BagToSet(media_tasks) : SavePhotoInsert(t)
    \/ \E t \in BagToSet(media_tasks) : SavePhotoCommit(t)

SpecReload == InitReload /\ [][NextReload]_vars

\* the rows of table afk in primary-key order
RECURSIVE SelectAfkRows(_)
SelectAfkRows(rows) ==
    IF rows = {} THEN << >>
    ELSE LET r == CHOOSE x \in rows : \A y \in rows : x[1] <= y[1]
         IN  <<[user |-> r[1], reason |-> r[2]]>> \o SelectAfkRows(rows \ {r})

\* the afk_cache that load_afk leaves: cleared, then one key per row
\*                                                        main.py:365-371, 958
InitAfk ==
    /\ XpIdle
    /\ ModIdle
    /\ MediaIdle
    /\ BoardIdle
    /\ RewardIdle
    /\ StartIdle
    /\ SettingsIdle
    /\ MsgIdle
    /\ db_afk \in {{}, InitAfkRows}
    /\ afk_cache = SelectAfkRows(db_afk)
    /\ afk_tasks = EmptyBag
    /\ afk_last = AfkNone

NextAfk ==
    \/ \E a \in Users, bot \in BOOLEAN, m \in {0} \cup Users, cmd \in AfkCommands :
          OnMessage(a, bot, m, cmd)
    \/ \E u \in Users, r \in AfkReasons : AfkSlash(u, r)
    \/ \E t \in BagToSet(afk_tasks) : WelcomeSent(t)
    \/ \E t \in BagToSet(afk_tasks) : SaveAfkDelete(t)
    \/ \E t \in BagToSet(afk_tasks) : SaveAfkInsert(t)
    \/ \E t \in BagToSet(afk_tasks) : SaveAfkCommit(t)
    \/ \E t \in BagToSet(afk_tasks) : PopSaved(t)
    \/ \E t \in BagToSet(afk_tasks) : NoticeSent(t)
    \/ \E t \in BagToSet(afk_tasks) : SetSaved(t)

SpecAfk == InitAfk /\ [][NextAfk]_vars

\* XP a user of the leaderboard's guild may have: the first three users any
\* of three values, the others one of two
BoardXp(u) == IF u <= 3 THEN {300, 500, 1200} ELSE {300, 1200}

\* the tables of n users, inserted in the order of their ids
BoardTables(n) ==
    {[i \in 1..n |-> [user |-> i, xp |-> f[i]]] :
        f \in {h \in [1..n -> {300, 500, 1200}] : \A i \in 1..n : h[i] \in BoardXp(i)}}

\* guild 1 is loaded with the XP of up to MaxBoardUsers users, of whom at
\* most one (the second or the last) has left the guild
InitBoard ==
    /\ InitProg
    /\ calc = CalcIdle
    /\ ModIdle
    /\ MediaIdle
    /\ AfkIdle
    /\ RewardIdle
    /\ StartIdle
    /\ SettingsIdle
    /\ MsgIdle
    /\ board = NoBoard
    /\ \E n \in 0..MaxBoardUsers :
          /\ xp_data \in {GuildPut(<< >>, 1, d) : d \in BoardTables(n)}
          /\ members \in {1..n, (1..n) \ {2}, (1..n) \ {n}}
    /\ db_xp = {<<1, xp_data[1][i].user, xp_data[1][i].xp>> : i \in 1..Len(xp_data[1])}

NextBoard ==
    \E g \in Guilds : LeaderboardHandler(g)

SpecBoard == InitBoard /\ [][NextBoard]_vars

\* XP totals just below and at level thresholds: 1000 is level 4, 1400 is
\* 100 short of level 5, 5400 of level 10 and 20900 of level 20
RewardXp(u) == IF u = 1 THEN {1000, 1400} ELSE {1400, 5400, 20900}
\* amounts xp_add is given: 100 reaches the next threshold, 1100 takes level 4
\* to level 6
RewardAmounts == {100, 1100}

\* on_ready has loaded the settings and the XP of guild 1; the guild may
\* have a level channel (existing or deleted) and may have the VIP role;
\* user 2 may have left the guild
InitReward ==
    /\ InitProg
    /\ calc = CalcIdle
    /\ ModIdle
    /\ MediaIdle
    /\ AfkIdle
    /\ board = NoBoard
    /\ members \in {{1, 2}, {1}}
    /\ \E x1 \in RewardXp(1), x2 \in RewardXp(2) :
          /\ db_xp = {<<1, 1, x1>>, <<1, 2, x2>>}
          /\ xp_data = LoadedFrom(db_xp)
    /\ level_channels \in [Guilds -> {NoChannel} \cup ChannelIds]
    /\ guild_roles \in {<< >>, <<"VIP">>}
    /\ member_roles = [u \in Users |-> {}]
    /\ notify_tasks = EmptyBag
    /\ notes = << >>
    /\ levelups = << >>
    /\ notify_errors = << >>
    /\ StartIdle
    /\ SettingsIdle
    /\ MsgIdle

\* the write-throughs the grants schedule stay pending: they touch db_xp and
\* tasks only, which notify_level_up neither reads nor writes
NextReward ==
    \/ \E g \in Guilds, u \in Users, a \in RewardAmounts :
          ops < MaxOps /\ AddUserXpNotify(g, u, a)
    \/ \E t \in BagToSet(notify_tasks) :
          \/ NotifyCreateRole(t)
          \/ NotifyAddRoles(t)
          \/ NotifySend(t)
          \/ NotifyFail(t)

SpecReward == InitReward /\ [][NextReward]_vars

\* amount xp_add and xp_remove are given where a level is crossed again
RegrantAmounts == {100}

\* both users are members 100 XP short of level 5 and the guild has its
\* level channel
InitRegrant ==
    /\ InitReward
    /\ members = {1, 2}
    /\ db_xp = {<<1, 1, 1400>>, <<1, 2, 1400>>}
    /\ level_channels = [g \in Guilds |-> 1]

\* XP is added and removed in steps of 100, so that level 5 is crossed, left
\* and crossed again while notifications run
NextRegrant ==
    \/ \E g \in Guilds, u \in Users, a \in RegrantAmounts : AddUserXpNotify(g, u, a)
    \/ \E g \in Guilds, u \in Users, a \in RegrantAmounts, perm \in BOOLEAN :
          XpRemoveHandler(g, u, a, perm)
    \/ \E t \in BagToSet(notify_tasks) :
          \/ NotifyCreateRole(t)
          \/ NotifyAddRoles(t)
          \/ NotifySend(t)
          \/ NotifyFail(t)

SpecRegrant == InitRegrant /\ [][NextRegrant]_vars

\* the guilds followed where write-throughs of different guilds interleave
TwoGuilds == {1, 2}

\* the rows of table xp then, and the values set_user_xp is given
GuildRows == {<<1, 1, 100>>, <<2, 1, 200>>, <<2, 2, 50>>}
GuildValues == {0 - 100, 40}

\* on_ready has loaded both guilds                      main.py:960-963
InitGuilds ==
    /\ tasks = EmptyBag
    /\ last_write = [q \in TwoGuilds \X Users |-> NoValue]
    /\ first_access = [g \in TwoGuilds |-> NoAccess]
    /\ last_add = AddIdle
    /\ save_failed = FALSE
    /\ ops = 0
    /\ db_xp = GuildRows
    /\ xp_data = [g \in TwoGuilds |-> AssignRows(<< >>, SelectRows(RowsOf(db_xp, g)))]
    /\ calc = CalcIdle
    /\ ModIdle
    /\ MediaIdle
    /\ AfkIdle
    /\ BoardIdle
    /\ RewardIdle
    /\ StartIdle
    /\ SettingsIdle
    /\ MsgIdle

NextGuilds ==
    \/ \E g \in TwoGuilds, u \in Users, x \in GuildValues : SetUserXp(g, u, x)
    \/ \E t \in BagToSet(tasks) : SaveStart(t)
    \/ \E t \in BagToSet(tasks) : SaveDelete(t)
    \/ \E t \in BagToSet(tasks) : SaveInsert(t)
    \/ \E t \in BagToSet(tasks) : SaveCommit(t)
    \/ \E t \in BagToSet(tasks) : SaveFail(t)

SpecGuilds == InitGuilds /\ [][NextGuilds]_vars

\* the levels level_set is given: a reward level and the level below it
SetLevels == {4, 5}

\* the invocations followed where levels are set: a moderator adds or
\* removes 100 XP or sets a level, for either user
LevelCommands ==
    [name : {"xp_add", "xp_remove"}, guild : Guilds, user : Users, arg : RegrantAmounts,
     perms : {{"manage_guild"}}, seq : {0}]
      \cup [name : {"level_set"}, guild : Guilds, user : Users, arg : SetLevels,
            perms : {{"manage_guild"}}, seq : {0}]

\* xp_add, xp_remove and level_set in a guild that notifies level-ups, with
\* both users 100 XP short of level 5
NextLevelSet ==
    \/ \E c \in LevelCommands : Invoke(c)
    \/ Handling("xp_add") /\ Permitted /\ invocation.arg >= 1
          /\ AddUserXpNotify(invocation.guild, invocation.user, invocation.arg)
    \/ Handling("xp_remove")
          /\ XpRemoveHandler(invocation.guild, invocation.user, invocation.arg, Permitted)
    \/ Handling("level_set") /\ Permitted
          /\ LevelSet(invocation.guild, invocation.user, invocation.arg)
    \/ \E t \in BagToSet(notify_tasks) :
          \/ NotifyCreateRole(t)
          \/ NotifyAddRoles(t)
          \/ NotifySend(t)
          \/ NotifyFail(t)

SpecLevelSet == InitRegrant /\ [][NextLevelSet]_vars

-----------------------------------------------------------------------------
(* Startup and offsite backup: on_ready pulls the snapshot, creates the    *)
(* schema, loads the state and creates the periodic_db_upload task.        *)
(* discord.py starts one on_ready coroutine per ready event, and the       *)
(* gateway delivers that event again after a reconnect that could not be   *)
(* resumed; it starts the other handlers whenever their events arrive.     *)

\* the xp rows of the bot_data.db that the repository holds
SnapshotXp == InitRows

ReadyTask(pc, pull) == [pc |-> pc, pull |-> pull]

BackupTask(pc, attempts, last) == [pc |-> pc, attempts |-> attempts, last |-> last]

\* download_db without GITHUB_TOKEN returns before its first await, and
\* on_ready goes on to init_db; with it the coroutine waits in session.get
\*                                                    main.py:75-81, 953-956
download_db_start(token) ==
    IF token THEN ReadyTask("download", "none") ELSE ReadyTask("init_db", "no_token")

\* the ready event; it comes again after a reconnect, when the on_ready of
\* the session before has ended                       main.py:953-955
OnReady ==
    /\ Len(readies) < MaxReady
    /\ \A i \in 1..Len(readies) : readies[i].pc \in {"done", "aborted"}
    /\ readies' = Append(readies, download_db_start(boot.token))
    /\ UNCHANGED <<boot, backups, progVars, modVars, mediaVars, afkVars, rewardVars,
                   notStart>>

\* session.get, resp.read or the file write raises: the exception leaves
\* download_db and on_ready                            main.py:80-86, 955
PullRaised(t) == [t EXCEPT !.pc = "aborted", !.pull = "raised"]

\* the answer of raw.githubusercontent.com: 200 and the file is replaced by
\* the snapshot, another status, or an exception       main.py:80-88
ReadyDownload(i, outcome) ==
    /\ i \in 1..Len(readies)
    /\ readies[i].pc = "download"
    /\ readies' = [readies EXCEPT ![i] =
                      IF outcome = "raised" THEN PullRaised(@)
                      ELSE [@ EXCEPT !.pc = "init_db", !.pull = outcome]]
    /\ db_xp' = IF outcome = "ok" THEN SnapshotXp ELSE db_xp
    /\ UNCHANGED <<boot, backups, xp_data, tasks, last_write, first_access, last_add,
                   save_failed, ops, modVars, mediaVars, afkVars, rewardVars, notStart>>

\* await init_db(): CREATE TABLE IF NOT EXISTS ...      main.py:125-172, 956
ReadyInitDb(i) ==
    /\ i \in 1..Len(readies)
    /\ readies[i].pc = "init_db"
    /\ readies' = [readies EXCEPT ![i].pc = "load"]
    /\ boot' = [boot EXCEPT !.schema = TRUE]
    /\ UNCHANGED <<backups, progVars, modVars, mediaVars, afkVars, rewardVars, notStart>>

\* load_afk, load_settings and, per guild, load_mod_stats, load_xp and
\* load_last_deleted_photo, taken as one step (the table of the deleted
\* media is empty here); load_xp leaves a guild that is in xp_data as it is
\*                                                      main.py:958-964
ReadyLoad(i) ==
    /\ i \in 1..Len(readies)
    /\ readies[i].pc = "load"
    /\ readies' = [readies EXCEPT ![i].pc = "save_last_seen"]
    /\ boot' = [boot EXCEPT !.loaded = TRUE]
    /\ afk_cache' = SelectAfkRows(db_afk)
    /\ mod_stats' = ModLoadedFrom(db_mod)
    /\ xp_data' = [g \in Guilds |-> IF g \in DOMAIN xp_data THEN xp_data[g]
                                     ELSE LoadedFrom(db_xp)[g]]
    /\ last_deleted_photo' = [g \in Guilds |-> << >>]
    /\ prefixes' = LoadedPrefixes(prefixes, db_settings)
    /\ level_channels' = LoadedChannels(level_channels, db_settings)
    /\ UNCHANGED <<backups, db_xp, tasks, last_write, first_access, last_add, save_failed,
                   ops, calc, db_mod, mod_tasks, mod_log, db_photo, media_tasks, media_log,
                   db_afk, afk_tasks, afk_last, boardVars, guild_roles, member_roles,
                   notify_tasks, notes, levelups, notify_errors, db_settings,
                   setting_tasks, invocation, msgVars>>

\* bot.loop.create_task(periodic_db_upload())           main.py:966
StartBackup(bs) == Append(bs, BackupTask("upload", 0, "none"))

\* await save_last_seen() returns and the backup task is created; on_ready
\* goes on to the command sync                          main.py:965-967
ReadyStartBackup(i) ==
    /\ i \in 1..Len(readies)
    /\ readies[i].pc = "save_last_seen"
    /\ readies' = [readies EXCEPT ![i].pc = "sync"]
    /\ backups' = StartBackup(backups)
    /\ UNCHANGED <<boot, progVars, modVars, mediaVars, afkVars, rewardVars, notStart>>

\* the command sync, whose exceptions are caught         main.py:967-980
ReadySync(i) ==
    /\ i \in 1..Len(readies)
    /\ readies[i].pc = "sync"
    /\ readies' = [readies EXCEPT ![i].pc = "done"]
    /\ UNCHANGED <<boot, backups, progVars, modVars, mediaVars, afkVars, rewardVars,
                   notStart>>

\* the exception leaves upload_db and the while loop of periodic_db_upload:
\* the task ends                                       main.py:119-122
UploadRaised(b) == [b EXCEPT !.pc = "ended", !.attempts = @ + 1, !.last = "raised"]

\* the outcomes of one upload_db call: a warning and return without the
\* token or without the file, success, an error status, or an exception
\* from the file read or the two requests               main.py:90-117
UploadOutcomes(token) ==
    IF token THEN {"no_file", "ok", "status", "raised"} ELSE {"no_token"}

RECURSIVE Uploads(_)
Uploads(bs) == IF bs = << >> THEN 0 ELSE Head(bs).attempts + Uploads(Tail(bs))

\* await upload_db(), then the loop waits in asyncio.sleep(300)
\*                                                      main.py:119-122
BackupUpload(j, outcome) ==
    /\ j \in 1..Len(backups)
    /\ backups[j].pc = "upload"
    /\ Uploads(backups) < MaxUploads
    /\ outcome \in UploadOutcomes(boot.token)
    /\ backups' = [backups EXCEPT ![j] =
                      IF outcome = "raised" THEN UploadRaised(@)
                      ELSE [@ EXCEPT !.pc = "sleep", !.attempts = @ + 1,
                                     !.last = outcome]]
    /\ UNCHANGED <<boot, readies, progVars, modVars, mediaVars, afkVars, rewardVars,
                   notStart>>

\* asyncio.sleep(300) returns                            main.py:122
BackupWake(j) ==
    /\ j \in 1..Len(backups)
    /\ backups[j].pc = "sleep"
    /\ backups' = [backups EXCEPT ![j].pc = "upload"]
    /\ UNCHANGED <<boot, readies, progVars, modVars, mediaVars, afkVars, rewardVars,
                   notStart>>

\* member and amount given to xp_add while the bot starts
StartUsers == {1}
StartAmounts == {100}

\* the process after import: empty caches, a new bot_data.db, and
\* GITHUB_TOKEN set or not                               main.py:52, 66-73
InitStartup ==
    /\ XpIdle
    /\ ModIdle
    /\ MediaIdle
    /\ AfkIdle
    /\ BoardIdle
    /\ RewardIdle
    /\ SettingsIdle
    /\ MsgIdle
    /\ boot \in [token : BOOLEAN, schema : {FALSE}, loaded : {FALSE}]
    /\ readies = << >>
    /\ backups = << >>

\* the write-throughs and loads the command schedules stay pending
NextStartup ==
    \/ OnReady
    \/ \E i \in 1..Len(readies) :
          \/ \E outcome \in {"ok", "status", "raised"} : ReadyDownload(i, outcome)
          \/ ReadyInitDb(i)
          \/ ReadyLoad(i)
          \/ ReadyStartBackup(i)
          \/ ReadySync(i)
    \/ \E j \in 1..Len(backups) :
          \/ \E outcome \in {"no_token", "no_file", "ok", "status", "raised"} :
                BackupUpload(j, outcome)
          \/ BackupWake(j)
    \/ \E g \in Guilds, u \in StartUsers, a \in StartAmounts : AddUserXp(g, u, a)

SpecStartup == InitStartup /\ [][NextStartup]_vars

\* the rows of table xp when the commands are followed: user 1 is inside
\* level 1
CommandRows == {<<1, 1, 150>>}

\* xp_add and xp_remove: an amount below 1, and amounts that keep user 1
\* below the next level, so that add_user_xp signals no level-up
AddArgs == {0, 5}
RemoveArgs == {0, 100}

\* level_set: a negative level and level 1
LevelArgs == {0 - 1, 1}

\* setprefix: no character (the prefix command called with ""), one, and
\* eleven
LongPrefix == [i \in 1..(MaxPrefixLen + 1) |-> "?"]
PrefixArgs == {<< >>, <<"?">>, LongPrefix}

\* timeout: minutes below, inside and above the range
DurationArgs == {0, 10, MaxTimeout + 1}

\* the permissions a caller may hold
PermSets == {{}, {"kick_members"}, {"manage_guild", "kick_members", "moderate_members"}}

CommandArgs ==
    [setprefix |-> PrefixArgs, xp_add |-> AddArgs, xp_remove |-> RemoveArgs,
     level_set |-> LevelArgs, levelchannelset |-> Channels, kick |-> {0}, warn |-> {0},
     timeout |-> DurationArgs]

\* the invocations followed: user 1 calls a gated command in guild 1 (the
\* target of the xp commands is user 1 as well)
Commands ==
    UNION {[name : {n}, guild : Guilds, user : {1}, arg : CommandArgs[n],
            perms : PermSets, seq : {0}] : n \in DOMAIN Required}

\* the gated commands, with every guild loaded and no level channel; the
\* write-through of the settings is followed to its commit, the coroutines
\* of the xp table and of the moderation log stay suspended where the
\* handler left them
InitCommands ==
    /\ InitProg
    /\ db_xp = CommandRows
    /\ xp_data = LoadedFrom(db_xp)
    /\ calc = CalcIdle
    /\ ModIdle
    /\ MediaIdle
    /\ AfkIdle
    /\ BoardIdle
    /\ RewardIdle
    /\ StartIdle
    /\ SettingsIdle
    /\ MsgIdle

NextCommands ==
    \/ \E c \in Commands : Invoke(c)
    \/ Handling("setprefix")
          /\ SetPrefixHandler(invocation.guild, invocation.arg, Permitted)
    \/ Handling("levelchannelset")
          /\ LevelChannelSetHandler(invocation.guild, invocation.arg, Permitted)
    \/ Handling("xp_add")
          /\ XpAddHandler(invocation.guild, invocation.user, invocation.arg, Permitted)
    \/ Handling("xp_remove")
          /\ XpRemoveHandler(invocation.guild, invocation.user, invocation.arg, Permitted)
    \/ Handling("level_set")
          /\ LevelSetHandler(invocation.guild, invocation.user, invocation.arg, Permitted)
    \/ Handling("kick") /\ KickHandler(invocation.guild, invocation.user, Permitted)
    \/ Handling("warn") /\ WarnHandler(invocation.guild, invocation.user, Permitted)
    \/ Handling("timeout")
          /\ TimeoutHandler(invocation.guild, invocation.user, invocation.arg, Permitted)
    \/ \E t \in BagToSet(setting_tasks) : SettingsDelete(t)
    \/ \E t \in BagToSet(setting_tasks) : SettingsInsert(t)
    \/ \E t \in BagToSet(setting_tasks) : SettingsCommit(t)

SpecCommands == InitCommands /\ [][NextCommands]_vars

\* the rows of table xp when passive XP is followed: user 1 is 10 XP below
\* level 1, user 2 is 10 XP below level 5, the first reward level
MessageRows == {<<1, 1, 90>>, <<1, 2, 1490>>}

\* random.randint(15, 25): both ends                    main.py:1023
PassiveAmounts == {15, 25}

\* passive XP with every guild loaded, both users members and the level
\* channel set; the write-through of the xp table stays suspended where
\* set_user_xp scheduled it
InitMessage ==
    /\ InitProg
    /\ db_xp = MessageRows
    /\ xp_data = LoadedFrom(db_xp)
    /\ calc = CalcIdle
    /\ ModIdle
    /\ MediaIdle
    /\ AfkIdle
    /\ board = NoBoard
    /\ members = Users
    /\ level_channels = [g \in Guilds |-> 1]
    /\ guild_roles = << >>
    /\ member_roles = [u \in Users |-> {}]
    /\ notify_tasks = EmptyBag
    /\ notes = << >>
    /\ levelups = << >>
    /\ notify_errors = << >>
    /\ StartIdle
    /\ SettingsIdle
    /\ MsgIdle

NextMessage ==
    \/ Tick
    \/ \E g \in Guilds, u \in Users, a \in PassiveAmounts : OnMessageXp(g, u, a)
    \/ \E t \in BagToSet(notify_tasks) : NotifyCreateRole(t)
    \/ \E t \in BagToSet(notify_tasks) : NotifyAddRoles(t)
    \/ \E t \in BagToSet(notify_tasks) : MessageNotifySend(t)
    \/ \E t \in BagToSet(notify_tasks) : MessageNotifyFail(t)

SpecMessage == InitMessage /\ [][NextMessage]_vars

\* the rows of table xp when command messages are followed
PostRows == {<<1, 2, 50>>}

\* the amounts an xpadd message carries
PostAmounts == {0, 5}

\* command messages in loaded guilds without level channel; the
\* write-through of the xp table stays suspended where set_user_xp
\* scheduled it
InitPosts ==
    /\ InitProg
    /\ db_xp = PostRows
    /\ xp_data = LoadedFrom(db_xp)
    /\ calc = CalcIdle
    /\ ModIdle
    /\ MediaIdle
    /\ AfkIdle
    /\ BoardIdle
    /\ RewardIdle
    /\ StartIdle
    /\ SettingsIdle
    /\ MsgIdle

NextPosts ==
    \/ Tick
    \/ \E g \in Guilds, author \in Users, member \in Users, a \in PostAmounts,
          perm \in BOOLEAN, x \in PassiveAmounts :
          OnCommandMessage(g, author, member, a, perm, x)
    \/ \E i \in 1..Len(posts) : OnCommandMessageDelete(i)

SpecPosts == InitPosts /\ [][NextPosts]_vars

-----------------------------------------------------------------------------
(* Properties of the level curve, under SpecLevel.                         *)

\* C1: for every level L >= 0, the level derived from the XP that
\* level_set stores for L, xp_for_level(L) = 50*L*(L+1), is L itself.
LevelOfThresholdIsLevel ==
    (calc.kind = "level" /\ calc.stage = "back") => calc.back = calc.arg

LevelOfThresholdReached ==
    /\ calc.kind = "level" /\ calc.stage = "back"
    /\ calc.arg = 7 /\ calc.thr = 2800 /\ calc.back = 7

LevelMonotone ==
    (calc.prev_level # NoValue /\ calc.prev_arg < calc.arg) =>
        calc.prev_level <= calc.level

LevelMonotoneReached ==
    /\ calc.prev_level = 0 /\ calc.prev_arg < 0
    /\ calc.arg = 300 /\ calc.level = 2

\* C4: for every x >= 0, get_level(xp_for_level(get_level(x))) = get_level(x).
LevelRoundTrip ==
    (calc.kind = "xp" /\ calc.stage = "back" /\ calc.arg >= 0) =>
        calc.back = calc.level

LevelRoundTripReached ==
    /\ calc.kind = "xp" /\ calc.stage = "back"
    /\ calc.arg = 250 /\ calc.level = 1 /\ calc.thr = 100 /\ calc.back = 1

\* C5: xp_for_level(0) = 0, and get_level(x) = 0 for every x <= 0.
NonPositiveXpIsLevelZero ==
    /\ (calc.kind = "xp" /\ calc.stage # "arg" /\ calc.arg <= 0) => calc.level = 0
    /\ (calc.kind = "xp" /\ calc.stage \in {"threshold", "back"} /\ calc.level = 0)
           => calc.thr = 0

NegativeXpReached ==
    /\ calc.kind = "xp" /\ calc.stage = "back"
    /\ calc.arg = 0 - 5 /\ calc.level = 0 /\ calc.thr = 0 /\ calc.back = 0

-----------------------------------------------------------------------------
(* Properties of the cache, under Spec.                                    *)

\* the table holding only u's XP, the start of a single add_user_xp
OnlyUser(g, u, xp) ==
    [xd |-> GuildPut(<< >>, g, DictPut(<< >>, u, xp)), ts |-> EmptyBag]

\* C6: two add_user_xp calls in sequence on (g, u) with amounts a, b >= 0
\* leave the stored XP, and so the derived level, that one call with a + b
\* leaves from the same start.
AddTwiceIsAddSum ==
    (last_add.chained /\ last_add.amount0 >= 0 /\ last_add.amount >= 0) =>
        LET single == add_user_xp(OnlyUser(last_add.guild, last_add.user, last_add.current0),
                                  last_add.guild, last_add.user,
                                  last_add.amount0 + last_add.amount)
            total  == CachedXp(single.xd, last_add.guild, last_add.user)
        IN  /\ last_add.stored = total
            /\ get_level(last_add.stored) = get_level(total)

AddTwiceReached ==
    /\ last_add.chained
    /\ last_add.current0 = 100 /\ last_add.amount0 = 100 /\ last_add.amount = 100
    /\ last_add.stored = 300
    /\ CachedXp(xp_data, last_add.guild, last_add.user) = 300

\* C7: no XP in the in-memory table is negative, whatever set_user_xp,
\* add_user_xp, xp_remove and level_set were called with; a total below 0
\* given to set_user_xp is stored as 0.
XpNeverNegative ==
    /\ \A g \in DOMAIN xp_data : \A i \in 1..Len(xp_data[g]) : xp_data[g][i].xp >= 0
    /\ (last_add.op = "add" /\ last_add.current + last_add.amount < 0)
           => last_add.stored = 0

NegativeTotalReached ==
    /\ last_add.op = "add"
    /\ last_add.current + last_add.amount < 0
    /\ last_add.guild \in DOMAIN xp_data
    /\ HasKey(xp_data[last_add.guild], last_add.user)
    /\ CachedXp(xp_data, last_add.guild, last_add.user) = 0

\* C8: add_user_xp calls notify_level_up once, with the level of the new
\* total, when get_level(current + amount) > get_level(current), and not at
\* all otherwise.
LevelUpSignalledOnce ==
    (last_add.op = "add") =>
        last_add.signal =
            IF get_level(last_add.current + last_add.amount) > get_level(last_add.current)
            THEN <<get_level(last_add.stored)>>
            ELSE << >>

LevelJumpReached ==
    /\ last_add.op = "add"
    /\ last_add.current = 0 /\ last_add.amount = 300
    /\ last_add.signal = <<2>>

\* C9: after set_user_xp(g, u, x), get_user_xp(g, u) returns max(0, x) until
\* the next set, add or remove on (g, u), whatever load_xp and save_xp tasks
\* run in between.
ReadYourWrites ==
    \A g \in Guilds, u \in Users :
        last_write[<<g, u>>] # NoValue =>
            CachedXp(xp_data, g, u) = last_write[<<g, u>>]

\* every load task created by the first access to g has run to its end
FirstLoadRan(g) ==
    /\ first_access[g].op \in {"get", "set", "add"}
    /\ ~\E t \in BagToSet(tasks) : t.fn = "load_xp" /\ t.guild = g /\ t.first

\* C10: when the first access to a never-loaded guild g is a get_user_xp or
\* a set_user_xp / add_user_xp of another user, and the store held XP v > 0
\* for u, then once the load task of that access has run get_user_xp(g, u)
\* returns v.
NoStaleEmptyRead ==
    \A g \in Guilds, u \in Users :
        (FirstLoadRan(g) /\ last_write[<<g, u>>] = NoValue) =>
            \A row \in first_access[g].rows :
                (row[1] = u /\ row[2] > 0) => CachedXp(xp_data, g, u) = row[2]

-----------------------------------------------------------------------------
(* Properties of the moderation log, under SpecMod.                        *)

\* C11: a call of load_mod_stats (like one of load_xp or of
\* load_last_deleted_photo) for a guild that already has an in-memory entry
\* is a no-op: the step that enters it leaves the guild's in-memory
\* moderation log exactly as it was.
LoadedGuildKept ==
    [][\A g \in Guilds, u \in Users :
          (g \in DOMAIN mod_stats /\ ModstatsHandler(g, u)) => mod_stats' = mod_stats]_vars

\* the timestamps update_mod_stats appended for (g, u, a), in order
RECURSIVE Appended(_, _, _, _)
Appended(log, g, u, a) ==
    IF log = << >> THEN << >>
    ELSE (IF Head(log).guild = g /\ Head(log).user = u /\ Head(log).action = a
          THEN <<Head(log).ts>> ELSE << >>) \o Appended(Tail(log), g, u, a)

\* s is t with zero or more elements left out
RECURSIVE IsSubSeq(_, _)
IsSubSeq(s, t) ==
    IF s = << >> THEN TRUE
    ELSE IF t = << >> THEN FALSE
    ELSE IF Head(s) = Head(t) THEN IsSubSeq(Tail(s), Tail(t))
    ELSE IsSubSeq(s, Tail(t))

\* C12: the in-memory moderation log is append-only: every timestamp that
\* update_mod_stats appended for (guild, moderator, action) is still in the
\* in-memory list of that key, in insertion order, whatever handlers, loads
\* and write-throughs ran since.
ModLogAppendOnly ==
    \A g \in Guilds, u \in Users, a \in ModActionSet :
        IsSubSeq(Appended(mod_log, g, u, a), ModList(mod_stats, g, u, a))

-----------------------------------------------------------------------------
(* Properties of the write-through, under Spec.                            *)

\* the (user, xp) pairs of the in-memory table of guild g
CacheRows(xd, g) == {<<xd[g][i].user, xd[g][i].xp>> : i \in 1..Len(xd[g])}

\* C13: write-through converges: once no load_xp or save_xp coroutine is
\* left and no save_xp ended with an error, so that nothing changes until
\* the next mutation, the rows of table xp for a loaded guild g are the
\* entries of xp_data[g].
WriteThroughConverged ==
    (tasks = EmptyBag /\ ~save_failed) =>
        \A g \in DOMAIN xp_data : RowsOf(db_xp, g) = CacheRows(xp_data, g)

\* C14: a failed write-through does not roll back the cache: the step in
\* which a save_xp coroutine ends with an exception leaves every in-memory
\* table, and so the value get_user_xp returns for every (guild, user), as
\* set_user_xp left it, and touches nothing of the handlers.
FailedSaveKeepsCache ==
    [][save_failed' # save_failed =>
          /\ xp_data' = xp_data
          /\ \A g \in Guilds, u \in Users :
                 CachedXp(xp_data', g, u) = CachedXp(xp_data, g, u)
          /\ UNCHANGED <<db_xp, last_write, last_add, ops>>]_vars

FailedSaveReached ==
    /\ save_failed
    /\ tasks = EmptyBag
    /\ last_write[<<1, 1>>] = 0
    /\ 1 \in DOMAIN xp_data
    /\ HasKey(xp_data[1], 1)
    /\ CachedXp(xp_data, 1, 1) = 0
    /\ CachedXp(xp_data, 1, 2) = 300
    /\ db_xp = InitRows

-----------------------------------------------------------------------------
(* Properties of the deleted-media list, under SpecMedia.                  *)

\* the entries on_message_delete inserted for guild g, oldest first
RECURSIVE Inserted(_, _)
Inserted(log, g) ==
    IF log = << >> THEN << >>
    ELSE (IF Head(log).guild = g THEN <<Head(log).entry>> ELSE << >>)
             \o Inserted(Tail(log), g)

\* the last n elements of s, the last one first
NewestFirst(s, n) == [i \in 1..n |-> s[Len(s) + 1 - i]]

\* C15: with deletions handled one at a time, after N image messages were
\* deleted in guild g the list last_deleted_photo[g] holds exactly the last
\* min(N, 10) of them, newest first (and so never more than 10).
LastTenNewestFirst ==
    \A g \in Guilds :
        LET ins == Inserted(media_log, g)
            n   == IF Len(ins) < 10 THEN Len(ins) ELSE 10
        IN  IF g \in DOMAIN last_deleted_photo
            THEN /\ Len(last_deleted_photo[g]) <= 10
                 /\ last_deleted_photo[g] = NewestFirst(ins, n)
            ELSE ins = << >>

TwelveDeletesReached ==
    /\ Len(media_log) = 12
    /\ media_tasks = EmptyBag
    /\ Len(last_deleted_photo[1]) = 10
    /\ last_deleted_photo[1][1].ts = 12
    /\ last_deleted_photo[1][10].ts = 3
    /\ Len(db_photo) = 10

-----------------------------------------------------------------------------
(* Properties of the AFK map, under SpecAfk.                               *)

\* the entries of the users other than u are those of the map before
OthersKept(u) ==
    \A v \in Users \ {u} : AfkLookup(afk_cache, v) = AfkLookup(afk_last.before, v)

MessageClearsAuthorOnly ==
    /\ afk_last.op = "pop" =>
           /\ ~HasKey(afk_cache, afk_last.user)
           /\ OthersKept(afk_last.user)
           /\ ~afk_last.dispatched
    /\ (afk_last.dispatched /\ afk_last.was_afk) => afk_last.popped
    /\ \A t \in BagToSet(afk_tasks) : (t.fn = "on_message" /\ t.was_afk) => t.popped
    /\ afk_last.op = "notice" =>
           /\ AfkLookup(afk_cache, afk_last.user) = <<afk_last.reason>>
           /\ afk_cache = afk_last.before
    /\ afk_last.op = "bot" => afk_cache = afk_last.before

MentionKeptReached ==
    /\ afk_last.op = "notice" /\ afk_last.user = 2
    /\ afk_last.was_afk /\ afk_last.popped /\ ~afk_last.dispatched
    /\ AfkLookup(afk_cache, 1) = << >>
    /\ AfkLookup(afk_cache, 2) = <<"AFK">>
    /\ \E t \in BagToSet(afk_tasks) :
          t.author = 1 /\ t.mention = 2 /\ t.pc = "notice" /\ t.cmd = <<"lunch">>

-----------------------------------------------------------------------------
(* Properties of the leaderboard, under SpecBoard.                         *)

ListedUsers(l) == {l[i].user : i \in 1..Len(l)}

\* C18: leaderboard_handler lists at most 10 users, all of them current
\* members of the guild, each once and with the XP recorded for them, in
\* descending XP order; every listed user's XP is at least the XP of every
\* member with recorded XP who is not listed, and a member is left out only
\* when 10 are listed; {1: 500, 2: 1200, 3: 300} gives [2, 1, 3].
BoardRanksMembers ==
    board.shown =>
        LET l == board.list
            d == xp_data[1]
        IN  /\ Len(l) <= 10
            /\ \A i \in 1..Len(l) :
                   /\ l[i].user \in members
                   /\ HasKey(d, l[i].user)
                   /\ DictGet(d, l[i].user, NoValue) = l[i].xp
            /\ \A i, j \in 1..Len(l) :
                   i < j => (l[i].xp >= l[j].xp /\ l[i].user # l[j].user)
            /\ \A k \in 1..Len(d) :
                   (d[k].user \in members /\ d[k].user \notin ListedUsers(l)) =>
                       /\ Len(l) = 10
                       /\ \A i \in 1..Len(l) : l[i].xp >= d[k].xp
            /\ (d = <<[user |-> 1, xp |-> 500], [user |-> 2, xp |-> 1200],
                      [user |-> 3, xp |-> 300]>> /\ members = {1, 2, 3}) =>
                   [i \in 1..Len(l) |-> l[i].user] = <<2, 1, 3>>

BoardExampleReached ==
    /\ board.shown
    /\ members = {1, 2, 3}
    /\ xp_data[1] = <<[user |-> 1, xp |-> 500], [user |-> 2, xp |-> 1200],
                      [user |-> 3, xp |-> 300]>>
    /\ board.list = <<[user |-> 2, xp |-> 1200], [user |-> 1, xp |-> 500],
                      [user |-> 3, xp |-> 300]>>

-----------------------------------------------------------------------------
(* Properties of the level rewards, under SpecReward.                      *)

\* names of the roles a user holds
HeldNames(u) == {guild_roles[r] : r \in member_roles[u]}

LevelUps == {levelups[i] : i \in 1..Len(levelups)}

Notes == {notes[i] : i \in 1..Len(notes)}

\* a notify_level_up coroutine of this level-up is still suspended
Notifying(e) ==
    \E t \in BagToSet(notify_tasks) :
        t.guild = e.guild /\ t.user = e.user /\ t.level = e.level

\* C19: once the notification of a level-up to a reward level (5, 10 or 20)
\* of a member has returned, in a guild without a level channel, the member
\* holds the reward role of that level and no message was sent for it.
RewardGrantedSilently ==
    \A e \in LevelUps :
        (/\ e.level \in DOMAIN level_rewards
         /\ e.channel = NoChannel
         /\ e.user \in members
         /\ ~Notifying(e)) =>
            /\ level_rewards[e.level] \in HeldNames(e.user)
            /\ \A n \in Notes : ~(n.guild = e.guild /\ n.user = e.user /\ n.level = e.level)

\* the rewards of the levels add_user_xp signalled for user u
SignalledRewards(u) ==
    {level_rewards[e.level] :
        e \in {x \in LevelUps : x.user = u /\ x.level \in DOMAIN level_rewards}}

\* C20: notify_level_up creates or grants a role only when the level it was
\* called with is a key of level_rewards: a coroutine called with another
\* level never waits in create_role or add_roles, every role a member holds
\* is the reward of a level signalled for that member, and a step that adds a
\* role to the guild or to a member is the step of a coroutine called with a
\* reward level; a grant that takes level 4 to level 6 is signalled as level
\* 6 only and so gives nothing for level 5.
RewardOnlyAtKey ==
    /\ [](/\ \A t \in BagToSet(notify_tasks) :
                t.pc \in {"create_role", "add_roles"} => t.level \in DOMAIN level_rewards
          /\ \A u \in Users : HeldNames(u) \subseteq SignalledRewards(u)
          /\ \A e \in LevelUps : e.level \notin DOMAIN level_rewards =>
                \A n \in Notes :
                    (n.guild = e.guild /\ n.user = e.user /\ n.level = e.level) =>
                        n.reward = NoReward)
    /\ [][(guild_roles' # guild_roles \/ member_roles' # member_roles) =>
            \E t \in BagToSet(notify_tasks) :
                /\ t.level \in DOMAIN level_rewards
                /\ \/ /\ t.pc = "create_role"
                      /\ guild_roles' = Append(guild_roles, level_rewards[t.level])
                      /\ member_roles' = member_roles
                   \/ /\ t.pc = "add_roles"
                      /\ guild_roles' = guild_roles
                      /\ guild_roles[t.role] = level_rewards[t.level]
                      /\ member_roles' = [member_roles EXCEPT ![t.user] = @ \cup {t.role}]]_vars

\* a grant took a member from level 4 to level 6, the message of level 6 was
\* sent, and the member holds no role
JumpOverRewardReached ==
    \E e \in LevelUps :
        /\ e.old = 4
        /\ e.level = 6
        /\ ~Notifying(e)
        /\ \E n \in Notes : n.guild = e.guild /\ n.user = e.user /\ n.level = 6
        /\ member_roles[e.user] = {}

\* the latest add_user_xp call is the one that started coroutine t
LatestAddIs(t) ==
    /\ last_add.op = "add"
    /\ last_add.guild = t.guild
    /\ last_add.user = t.user
    /\ last_add.signal = <<t.level>>

\* C21: a step in which create_role, add_roles or channel.send of a
\* notify_level_up coroutine fails leaves the XP table, the store and the
\* scheduled write-throughs as they were, so the member's XP is still the
\* value last written (XP before plus amount, when the failed level-up is
\* the latest grant); the coroutine ends and no request or notify_level_up
\* call is made again for it.
FailedRewardKeepsXp ==
    [][notify_errors' # notify_errors =>
        \E t \in BagToSet(notify_tasks) :
            /\ notify_errors' = Append(notify_errors,
                                       [guild |-> t.guild, user |-> t.user,
                                        level |-> t.level, pc |-> t.pc])
            /\ xp_data' = xp_data
            /\ db_xp' = db_xp
            /\ tasks' = tasks
            /\ CachedXp(xp_data', t.guild, t.user) = last_write[<<t.guild, t.user>>]
            /\ LatestAddIs(t) =>
                  CachedXp(xp_data', t.guild, t.user) = last_add.current + last_add.amount
            /\ notify_tasks' = notify_tasks (-) SetToBag({t})
            /\ levelups' = levelups
            /\ guild_roles' = guild_roles
            /\ member_roles' = member_roles
            /\ notes' = notes]_vars

\* the role grant of the latest level-up failed and the XP it wrote is in
\* the table
FailedRewardReached ==
    /\ notify_errors # << >>
    /\ LET f == notify_errors[Len(notify_errors)]
       IN  /\ f.pc = "add_roles"
           /\ LatestAddIs(f)
           /\ last_add.amount > 0
           /\ CachedXp(xp_data, f.guild, f.user) = last_add.current + last_add.amount

\* the roles of that name among rs, in a guild whose roles are roles
Named(rs, roles, name) == {r \in rs : roles[r] = name}

\* when notify_level_up was called for level-up e no other notification was
\* in progress, the guild had one role of the reward's name and the member
\* held it: the reward had been granted before
GrantedBefore(e) ==
    /\ e.level \in DOMAIN level_rewards
    /\ e.quiet
    /\ Cardinality(Named(1..Len(e.guild_roles), e.guild_roles, level_rewards[e.level])) = 1
    /\ Cardinality(Named(e.roles, e.guild_roles, level_rewards[e.level])) = 1

\* C22: when a member who was granted the reward role of a level crosses
\* that level again (XP removed, then added), the second notify_level_up
\* creates no role and leaves the member holding that role exactly once:
\* the roles of the reward's name the member holds are the one held before.
RewardGrantedOnce ==
    \A e \in LevelUps :
        GrantedBefore(e) =>
            /\ \A t \in BagToSet(notify_tasks) :
                   (t.guild = e.guild /\ t.user = e.user /\ t.level = e.level) =>
                       /\ t.pc # "create_role"
                       /\ t.role \in e.roles \/ t.pc = "send"
            /\ Named(1..Len(guild_roles), guild_roles, level_rewards[e.level])
                   = Named(1..Len(e.guild_roles), e.guild_roles, level_rewards[e.level])
            /\ Named(member_roles[e.user], guild_roles, level_rewards[e.level])
                   = Named(e.roles, e.guild_roles, level_rewards[e.level])
            /\ Cardinality(Named(member_roles[e.user], guild_roles,
                                 level_rewards[e.level])) = 1

\* level 5 was crossed, XP was removed, level 5 was crossed again, both
\* notifications were sent and the member holds one role, VIP
SecondCrossingReached ==
    \E i, j \in 1..Len(levelups) :
        /\ i < j
        /\ levelups[i].user = levelups[j].user
        /\ levelups[i].level = 5
        /\ levelups[j].level = 5
        /\ levelups[i].roles = {}
        /\ GrantedBefore(levelups[j])
        /\ notify_tasks = EmptyBag
        /\ Cardinality({k \in 1..Len(notes) :
                           notes[k].user = levelups[j].user /\ notes[k].level = 5}) = 2
        /\ Cardinality(member_roles[levelups[j].user]) = 1
        /\ HeldNames(levelups[j].user) = {"VIP"}

-----------------------------------------------------------------------------
(* Properties of startup and backup, under SpecStartup.                    *)

\* the periodic_db_upload tasks that have not ended
AliveBackups == {j \in 1..Len(backups) : backups[j].pc # "ended"}

\* C23: a periodic_db_upload task that has made an upload attempt, whatever
\* its outcome, has not ended: it waits in the sleep or is attempting the
\* next upload.
BackupLoopGoesOn ==
    \A j \in 1..Len(backups) :
        backups[j].attempts > 0 => backups[j].pc \in {"sleep", "upload"}

\* C24: an on_ready whose download_db did not get the snapshot (no token,
\* a status other than 200, or an exception) is not ended by it: it goes on
\* to init_db, the loads and the creation of the backup task.
StartupSurvivesPull ==
    \A i \in 1..Len(readies) :
        readies[i].pull \in {"no_token", "status", "raised"} =>
            readies[i].pc \in {"init_db", "load", "save_last_seen", "sync", "done"}

\* C25: a handler of a message or command runs (and reads or writes the
\* cache) only when an on_ready has pulled the snapshot, created the schema
\* and loaded the state.
ServedAfterStartup ==
    [][ops' # ops => boot.loaded]_vars

\* C26: at most one periodic_db_upload task is alive, however many ready
\* events were delivered.
SingleBackupLoop ==
    Cardinality(AliveBackups) <= 1

-----------------------------------------------------------------------------
(* Properties of the gated commands, under SpecCommands.                   *)

\* the XP table, the settings, the moderation log, their tables in the store
\* and the coroutines that write them through
Guarded ==
    <<xp_data, db_xp, tasks, prefixes, level_channels, db_settings, setting_tasks,
      mod_stats, db_mod, mod_tasks, mod_log>>

\* this step is the handler of the recorded invocation, run up to its return
\* or first suspension
Handled == ops' # ops /\ invocation.seq = ops'

\* the recorded invocation has been handled
Answered == ops > 0 /\ invocation.seq = ops

\* C27: when the caller lacks the permission the command requires, the
\* handler of xp_add, xp_remove, level_set, setprefix, levelchannelset, kick,
\* warn or timeout leaves the XP table, the settings, the moderation log and
\* the store as they were and schedules no write-through.
DenialMutatesNothing ==
    [][(Handled /\ Required[invocation.name] \notin invocation.perms)
          => UNCHANGED Guarded]_vars

\* C27 witness: xp_add with a valid amount was handled for a caller who holds
\* kick_members but not manage_guild, and the table is the loaded one with no
\* save scheduled.
DeniedCommandReached ==
    /\ Answered
    /\ invocation.name = "xp_add" /\ invocation.arg = 5
    /\ invocation.perms = {"kick_members"}
    /\ xp_data = LoadedFrom(CommandRows)
    /\ tasks = EmptyBag

\* the argument fails the handler's validation: an amount below 1, a
\* negative level, a prefix of more than 10 characters, or a duration
\* outside 1..40320
InvalidArgument ==
    CASE invocation.name \in {"xp_add", "xp_remove"} -> invocation.arg < 1
      [] invocation.name = "level_set" -> invocation.arg < 0
      [] invocation.name = "setprefix" -> Len(invocation.arg) > MaxPrefixLen
      [] invocation.name = "timeout" -> invocation.arg < 1 \/ invocation.arg > MaxTimeout
      [] OTHER -> FALSE

\* C28: xp_add or xp_remove with an amount below 1, level_set with a negative
\* level, setprefix with more than 10 characters and timeout with a duration
\* outside 1..40320 leave the XP table, the prefix, the moderation log and
\* the store unchanged.
ValidationMutatesNothing ==
    [][(Handled /\ InvalidArgument) => UNCHANGED Guarded]_vars

\* C28 witness: a timeout of 40321 minutes was handled for a caller who holds
\* moderate_members, and no coroutine of the moderation log was started.
RejectedTimeoutReached ==
    /\ Answered
    /\ invocation.name = "timeout" /\ invocation.arg = MaxTimeout + 1
    /\ "moderate_members" \in invocation.perms
    /\ mod_tasks = EmptyBag /\ mod_stats = << >>

-----------------------------------------------------------------------------
(* Properties of get_level_info, under SpecLevel.                          *)

-----------------------------------------------------------------------------
(* Properties of passive XP, under SpecMessage.                            *)

\* C30: an error raised while a level-up is notified inside on_message does
\* not leave the handler: for every message whose notification failed the
\* cooldown of the author is set and bot.process_commands is invoked.
NotifyErrorContained ==
    \A i \in 1..Len(inbox) :
        inbox[i].failed => inbox[i].cooled /\ inbox[i].processed

-----------------------------------------------------------------------------
(* Properties of the settings, under SpecCommands.                         *)

\* C31: every prefix that setprefix has stored for a guild has between 1 and
\* 10 characters, in the prefixes dict and in table settings.
StoredPrefixInRange ==
    /\ \A g \in DOMAIN prefixes : Len(prefixes[g]) \in 1..MaxPrefixLen
    /\ \A r \in db_settings : Len(r[2]) \in 1..MaxPrefixLen

\* C32: for each guild and user, two passive XP grants are more than 120
\* seconds apart, whatever the interleaving of the on_message coroutines and
\* whether the notification of the first grant is suspended, succeeds or
\* fails.
PassiveGrantsSpaced ==
    \A i, j \in 1..Len(inbox) :
        (/\ i < j
         /\ inbox[i].guild = inbox[j].guild /\ inbox[i].author = inbox[j].author
         /\ inbox[i].granted /\ inbox[j].granted)
            => inbox[j].now - inbox[i].now > MsgCooldown

-----------------------------------------------------------------------------
(* Properties of the reloaded deleted-media list, under SpecReload.        *)

\* C33: whatever the interleaving of on_message_delete with
\* load_last_deleted_photo, the list of a guild never holds more than 10
\* entries.
MediaListCapped ==
    \A g \in DOMAIN last_deleted_photo : Len(last_deleted_photo[g]) <= MediaCap

-----------------------------------------------------------------------------
(* Properties of the stored XP of other users, under Spec.                 *)

\* C34: a write-through never destroys the XP of a user nobody touched: a
\* row (g, u, v) of table xp whose user no get/set/add operation has written
\* is still in the table after every step, the commits of save_xp included,
\* also when the first access to a never-loaded guild is a mutation of
\* another user.
UntouchedRowsKept ==
    [][\A r \in db_xp :
          last_write'[<<r[1], r[2]>>] = NoValue => r \in db_xp']_vars

-----------------------------------------------------------------------------
(* Properties of concurrent grants, under SpecMessage.                     *)

\* the XP of user u in table xp when the guild was loaded
LoadedXp(u) == (CHOOSE r \in MessageRows : r[2] = u)[3]

\* the sum of the amounts add_user_xp was called with for user u
RECURSIVE GrantedSum(_, _)
GrantedSum(box, u) ==
    IF box = << >> THEN 0
    ELSE (IF Head(box).author = u /\ Head(box).granted THEN Head(box).amount ELSE 0)
             + GrantedSum(Tail(box), u)

\* C35: with the guild loaded and no load in flight, whatever the
\* interleaving of the add_user_xp calls for one user, calls suspended in the
\* level-up notification included, the in-memory XP of the user is the
\* loaded value plus the sum of the amounts.
GrantsAddUp ==
    \A g \in Guilds, u \in Users :
        CachedXp(xp_data, g, u) = LoadedXp(u) + GrantedSum(inbox, u)

\* C35 witness: three grants to user 1, the first still suspended in its
\* notification while the others ran, and 90 + 15 + 25 + 15 XP in memory.
OverlappingGrantsReached ==
    /\ Len(inbox) = 3
    /\ \A i \in 1..3 : inbox[i].author = 1 /\ inbox[i].granted
    /\ inbox[1].pc = "add_user_xp" /\ inbox[1].amount = 15
    /\ inbox[2].amount = 25
    /\ inbox[3].amount = 15
    /\ CachedXp(xp_data, 1, 1) = 145

-----------------------------------------------------------------------------
(* Properties of concurrent notifications, under SpecReward.               *)

\* C36: a guild holds at most one role of each name: two notifications for
\* the same reward level that run concurrently, for two users, do not both
\* create the role.
OneRolePerRewardName ==
    \A i, j \in 1..Len(guild_roles) : guild_roles[i] = guild_roles[j] => i = j

-----------------------------------------------------------------------------
(* Properties of command messages, under SpecPosts.                        *)

\* C37: a command carried by a message is executed at most once per
\* message: the deletion of the message does not run xp_add_handler a
\* second time.
CommandRunsOnce == \A i \in 1..Len(posts) : posts[i].runs <= 1

-----------------------------------------------------------------------------
(* Properties of the set and remove commands, under SpecLevelSet.          *)

\* what a call of notify_level_up leaves behind: the call itself, its
\* coroutine, the roles and the messages
Signals == <<levelups, notify_tasks, guild_roles, member_roles, notes, notify_errors>>

\* C38: only the add path signals a level-up: the handlers of level_set and
\* xp_remove never call notify_level_up, so a step of theirs starts no
\* notification, grants no role and sends no message, also when the level
\* set is a reward level.
SetAndRemoveSignalNothing ==
    [][(Handled /\ invocation.name \in {"level_set", "xp_remove"})
          => UNCHANGED Signals]_vars

\* C38 witness: level_set has put a member 100 XP short of level 5 on level
\* 5, in a guild with a level channel, and nothing was signalled: no role is
\* held, no notification is pending or sent.
QuietLevelSetReached ==
    /\ Answered
    /\ invocation.name = "level_set" /\ invocation.arg = 5
    /\ invocation.user \in members
    /\ level_channels[invocation.guild] \in Channels
    /\ get_level(CachedXp(xp_data, invocation.guild, invocation.user)) = 5
    /\ levelups = << >>
    /\ notify_tasks = EmptyBag
    /\ member_roles[invocation.user] = {}
    /\ notes = << >>

-----------------------------------------------------------------------------
(* Properties of write-throughs of several guilds, under SpecGuilds.       *)

\* C39: a write-through of guild g's XP changes only store rows whose guild
\* is g: whenever table xp changes, the step is the commit of one save_xp
\* coroutine and the rows of every other guild are the same before and
\* after, however the write-throughs of different guilds interleave.
WriteThroughKeepsOtherGuilds ==
    [][db_xp' # db_xp =>
          \E t \in BagToSet(tasks) :
              /\ t.fn = "save_xp" /\ t.pc = "commit"
              /\ tasks' = TaskDone(tasks, t)
              /\ \A r \in db_xp \cup db_xp' :
                    r[1] # t.guild => (r \in db_xp /\ r \in db_xp')]_vars

\* C39 witness: both guilds were written; the write-through of guild 1 has
\* committed the changed rows of guild 1 while the write-through of guild 2
\* was still pending, and the rows of guild 2 are the ones the store held.
GuildOneCommittedReached ==
    /\ \A g \in TwoGuilds : \E u \in Users : last_write[<<g, u>>] # NoValue
    /\ RowsOf(db_xp, 1) # RowsOf(GuildRows, 1)
    /\ RowsOf(db_xp, 1) = CacheRows(xp_data, 1)
    /\ \E t \in BagToSet(tasks) : t.fn = "save_xp" /\ t.guild = 2
    /\ CacheRows(xp_data, 2) # RowsOf(GuildRows, 2)
    /\ RowsOf(db_xp, 2) = RowsOf(GuildRows, 2)

=============================================================================
